---------------------------- MODULE Spec2Model ----------------------------
(***************************************************************************)
(* Timeline component (src/unnamed/part_000, the main zoomable timeline,   *)
(* and src/src/components/timeline.jsx, the simple timeline).              *)
(*                                                                         *)
(* The module holds several specifications over disjoint groups of        *)
(* variables; a specification leaves the groups it does not use at their   *)
(* idle value:                                                             *)
(*   SpecYear   the BCE/CE helpers (toAstronomical, fromAstronomical,      *)
(*              formatYear)                                                *)
(*   SpecTip    one placement of a geometry-anchored tooltip               *)
(*              (showSegAnchored, showDurationAnchored)                    *)
(*   SpecZoom   the d3.zoom behaviour as the two components configure it:  *)
(*              wheel zoom, drag pan, and the re-render after a resize     *)
(*   SpecLayout the placement of the text dots by apply(zx, zy, k)         *)
(*   Spec       the interaction state of the main timeline: the refs of    *)
(*              the component under the pointer, click and zoom handlers   *)
(*                                                                         *)
(* Numbers.  JavaScript numbers are modelled in fixed point: a zoom        *)
(* factor k is held in tenths (k = 0.9 is 9, ZOOM_THRESHOLD = 2.4 is 24).  *)
(* A transform is [k, x, y] with k in tenths and the translation x, y in    *)
(* tenths of a pixel; every other length is in whole pixels unless its     *)
(* name says otherwise (x100: hundredths of a pixel, before the zoom;      *)
(* mpx: thousandths of a pixel, after it).  Strings are sequences of       *)
(* UTF-16 code units.                                                      *)
(***************************************************************************)
EXTENDS Integers, Sequences, FiniteSets, TLC

VARIABLES
    \* ---- SpecYear: one evaluation of the year helpers
    yearIn,      \* the integer handed to a helper
    astro,       \* <<toAstronomical(yearIn)>>, or NoVal before the call
    human,       \* <<result of fromAstronomical>>, or NoVal before the call
    label,       \* formatYear(yearIn), or NoVal before the call
    \* ---- SpecTip: one placement of an anchored tooltip
    tipAnchor,   \* <<[left, right, yTop, hPix]>> of the element, px; NoVal
                 \* while zxRef/zyRef are still null
    tipWrap,     \* wrapEl.getBoundingClientRect(): [width, height], px
    tipNode,     \* the tooltip node: [offsetWidth, offsetHeight], px
    tipStyle,    \* <<[kind, left2, top2, below]>> once shown (left2, top2 in
                 \* half pixels: left = left2 / 2), NoVal while hidden
    \* ---- SpecZoom: the zoom behaviour on the svg node
    zoomComp,    \* "main" (part_000) or "simple" (components/timeline.jsx)
    zoomSize,    \* the size state: [width, height] of the container
    zoomNode,    \* svg.__zoom, the current transform [k, x, y]
    zoomLast,    \* lastTransformRef.current: <<transform>>, NoVal for null
    zoomEvents,  \* how many input events the behaviour has handled
    zoomRefs,    \* [kRef, zxRef, zyRef]: the scale factor and the rescaled
                 \* scales that the main timeline caches
    \* ---- SpecLayout: the text dots of one render
    layOutlines, \* outlines: band id -> [start, end, y, h]
    layRows,     \* textRows: sequence of [durationId, when, y100]
    layT,        \* <<transform>> of the last apply, NoVal before the first
    layDots      \* circle.textDot attributes after the last apply: band id ->
                 \* the band's dots in ascending pixel x (the order they were
                 \* placed in), each [row, cx, cy, found]: cx, cy in mpx, row
                 \* the index in textRows, found whether an offset was accepted
    ,
    \* ---- Spec: the refs of the main timeline and what its handlers touch
    kRef,                   \* kRef.current, tenths
    prevZoomedInRef,        \* prevZoomedInRef.current
    zoomDraggingRef,        \* zoomDraggingRef.current
    lastTransformRef,       \* lastTransformRef.current: <<transform>>, NoVal
    hoveredDurationIdRef,   \* hoveredDurationIdRef.current: band id or NONE
    activeDurationIdRef,    \* activeDurationIdRef.current: band id or NONE
    awaitingCloseClickRef,  \* awaitingCloseClickRef.current
    activeSegIdRef,         \* activeSegIdRef.current: segment id or NONE
    hoveredSegParentIdRef,  \* hoveredSegParentIdRef.current: band id or NONE
    pointerEvents,          \* the pointer-events style of each layer
    tips,                   \* the tooltip divs with display: block
    selected,               \* "author", "text" (selectedAuthor / selectedText
                            \* is set) or NONE
    hoverEl,                \* the element the browser has sent mouseenter to
                            \* and not yet mouseleave: [class, id]
    lastEvent,              \* the event handled last: [type, target]
    cardPos,                \* cardPos: [left, top] of the text card, px
    authorCardPos,          \* authorCardPos: [left, top] of the author card
    clickSeenBySvg,         \* whether the event handled last was a click
                            \* that reached the svg's click.clearActive
    sourceEvent,            \* event.sourceEvent of the event handled last,
                            \* when it was a zoom event: [kind, el]
    labelOpacity,           \* the opacity attribute of each band's
                            \* text.durationLabel, hundredths
    segStroke,              \* the stroke of each rect.segmentHit:
                            \* [opacity, width]
    tipPointer,             \* clientX, clientY of the last showTip call
    rowSize,                \* size: the useState of the wrapper's size
    rowDurations,           \* durations: the bands as the data file has them
    rowRegistry,            \* datasetRegistry: [durationId, authors, texts]
    rowsA,                  \* authorRows, the visible span-marks
    rowsT                   \* textRows, the visible instant-marks

yearVars == <<yearIn, astro, human, label>>
tipVars == <<tipAnchor, tipWrap, tipNode, tipStyle, tipPointer>>
rowVars == <<rowSize, rowDurations, rowRegistry, rowsA, rowsT>>
zoomVars == <<zoomComp, zoomSize, zoomNode, zoomLast, zoomEvents, zoomRefs>>
layVars == <<layOutlines, layRows, layT, layDots>>
uiVars == <<kRef, prevZoomedInRef, zoomDraggingRef, lastTransformRef,
            hoveredDurationIdRef, activeDurationIdRef, awaitingCloseClickRef,
            activeSegIdRef, hoveredSegParentIdRef, pointerEvents, tips,
            selected, hoverEl, lastEvent, cardPos, authorCardPos,
            clickSeenBySvg, sourceEvent, labelOpacity, segStroke>>
vars == <<yearIn, astro, human, label, tipAnchor, tipWrap, tipNode, tipStyle,
          zoomComp, zoomSize, zoomNode, zoomLast, zoomEvents, zoomRefs,
          layOutlines, layRows, layT, layDots,
          kRef, prevZoomedInRef, zoomDraggingRef, lastTransformRef,
          hoveredDurationIdRef, activeDurationIdRef, awaitingCloseClickRef,
          activeSegIdRef, hoveredSegParentIdRef, pointerEvents, tips,
          selected, hoverEl, lastEvent, cardPos, authorCardPos,
          clickSeenBySvg, sourceEvent, labelOpacity, segStroke,
          tipPointer, rowSize, rowDurations, rowRegistry, rowsA, rowsT>>

NONE == "none"      \* null for an id
NoVal == <<>>       \* null for a number or a string: a value v is held as <<v>>

(***************************************************************************)
(* The value each group of variables keeps under the specifications that   *)
(* do not use it                                                           *)
(***************************************************************************)
YearIdle == yearIn = 0 /\ astro = NoVal /\ human = NoVal /\ label = NoVal

TipIdle ==
    /\ tipAnchor = NoVal
    /\ tipWrap = [width |-> 800, height |-> 400]
    /\ tipNode = [offsetWidth |-> 120, offsetHeight |-> 40]
    /\ tipStyle = NoVal
    /\ tipPointer = NoVal

ZoomIdle ==
    /\ zoomComp = "main"
    /\ zoomSize = [width |-> 800, height |-> 400]
    /\ zoomNode = [k |-> 10, x |-> 0, y |-> 0]
    /\ zoomLast = NoVal
    /\ zoomEvents = 0
    /\ zoomRefs = [kRef |-> 10, zxRef |-> NoVal, zyRef |-> NoVal]

LayIdle ==
    /\ layOutlines = <<>>
    /\ layRows = <<>>
    /\ layT = NoVal
    /\ layDots = <<>>

RowIdle ==
    /\ rowSize = [width |-> 800, height |-> 400]
    /\ rowDurations = <<>>
    /\ rowRegistry = <<>>
    /\ rowsA = <<>>
    /\ rowsT = <<>>

\* the data of the interaction model: band A with two segments that meet
\* in the year -300, band B with none; one author of band A whose life
\* begins in the first segment and ends in the second, one text of band A
\* dated in the year where they meet (years human, y and h in px)
OutlineIds == {"A", "B"}
segments ==
    <<[id |-> "A1", parentId |-> "A", start |-> -500, end |-> -300, y |-> 100, h |-> 24],
      [id |-> "A2", parentId |-> "A", start |-> -300, end |-> -100, y |-> 100, h |-> 24]>>
Segments == {segments[i] : i \in DOMAIN segments}
NullSeg == [id |-> NONE, parentId |-> NONE, start |-> 0, end |-> 0, y |-> 0, h |-> 0]
authorRows ==
    {[id |-> "au", durationId |-> "A", start |-> -350, end |-> -250, y |-> 110]}
textRows == {[id |-> "tx", durationId |-> "A", when |-> -300, y |-> 110]}

\* const DUR_LABEL_OPACITY = { base: 0.3, hover: 0.75, active: 1 }, hundredths
DUR_LABEL_OPACITY == [base |-> 30, hover |-> 75, active |-> 100]
\* the stroke of a rect.segmentHit: stroke-opacity in hundredths and
\* stroke-width in tenths, as created and reset (base), as hovered or
\* previewed (hover) and as the active segment (active)
SEG_STROKE ==
    [base |-> [opacity |-> 2, width |-> 15], hover |-> [opacity |-> 50, width |-> 20],
     active |-> [opacity |-> 100, width |-> 20]]

\* the refs as useRef(..) creates them, before the draw effect has run
Mounted ==
    [kRef |-> 10, prevZoomedInRef |-> FALSE, zoomDraggingRef |-> FALSE,
     lastTransformRef |-> NoVal, hoveredDurationIdRef |-> NONE,
     activeDurationIdRef |-> NONE, awaitingCloseClickRef |-> FALSE,
     activeSegIdRef |-> NONE, hoveredSegParentIdRef |-> NONE,
     pointerEvents |-> [outlineRect |-> "all", segmentHit |-> "all",
                        author |-> "all", textDot |-> "all"],
     tips |-> {}, selected |-> NONE,
     cardPos |-> [left |-> 16, top |-> 16],
     authorCardPos |-> [left |-> 16, top |-> 16],
     labelOpacity |-> [d \in OutlineIds |-> DUR_LABEL_OPACITY.base],
     segStroke |-> [id \in {seg.id : seg \in Segments} |-> SEG_STROKE.base]]

SVG == [class |-> "svg", id |-> NONE]     \* the svg itself: empty canvas

\* event.sourceEvent of a zoom event: null for zoom.transform, a touch event
\* (no clientX), or a mouse or wheel event; el is document.elementFromPoint
\* at its clientX, clientY
NoSourceEvent == [kind |-> "null", el |-> SVG]
TouchEvent == [kind |-> "touch", el |-> SVG]
MouseEvent(el) == [kind |-> "mouse", el |-> el]

\* the refs hold the values of the record s
Holds(s) ==
    /\ kRef = s.kRef
    /\ prevZoomedInRef = s.prevZoomedInRef
    /\ zoomDraggingRef = s.zoomDraggingRef
    /\ lastTransformRef = s.lastTransformRef
    /\ hoveredDurationIdRef = s.hoveredDurationIdRef
    /\ activeDurationIdRef = s.activeDurationIdRef
    /\ awaitingCloseClickRef = s.awaitingCloseClickRef
    /\ activeSegIdRef = s.activeSegIdRef
    /\ hoveredSegParentIdRef = s.hoveredSegParentIdRef
    /\ pointerEvents = s.pointerEvents
    /\ tips = s.tips
    /\ selected = s.selected
    /\ cardPos = s.cardPos
    /\ authorCardPos = s.authorCardPos
    /\ labelOpacity = s.labelOpacity
    /\ segStroke = s.segStroke

UiIdle ==
    /\ Holds(Mounted)
    /\ hoverEl = SVG
    /\ lastEvent = [type |-> "none", target |-> SVG]
    /\ clickSeenBySvg = FALSE
    /\ sourceEvent = NoSourceEvent

Abs(n) == IF n < 0 THEN -n ELSE n
Max(a, b) == IF a >= b THEN a ELSE b
Min(a, b) == IF a <= b THEN a ELSE b

(***************************************************************************)
(* BCE/CE helpers (no year 0)                                              *)
(***************************************************************************)
toAstronomicalNoShift(y) == y
toAstronomicalNegativeOnly(y) == IF y < 0 THEN y + 1 ELSE y
toAstronomical(y) == IF y <= 0 THEN y + 1 ELSE y

fromAstronomicalStrict(a) == IF a < 0 THEN a - 1 ELSE a
fromAstronomical(a) == IF a <= 0 THEN a - 1 ELSE a

\* `${n}` for a non-negative integer n: its decimal digits, as code units
RECURSIVE NumberToString(_)
NumberToString(n) ==
    IF n < 10 THEN <<48 + n>>
    ELSE NumberToString(n \div 10) \o <<48 + (n % 10)>>

SUFFIX_BCE == <<32, 66, 67, 69>>     \* " BCE"
SUFFIX_CE == <<32, 67, 69>>          \* " CE"
EM_DASH == <<8212>>                  \* U+2014

formatYearSigned(y) ==
    IF y < 0 THEN <<45>> \o NumberToString(Abs(y)) \o SUFFIX_BCE
    ELSE IF y > 0 THEN NumberToString(y) \o SUFFIX_CE
    ELSE EM_DASH
formatYear(y) ==
    IF y < 0 THEN NumberToString(Abs(y)) \o SUFFIX_BCE
    ELSE IF y > 0 THEN NumberToString(y) \o SUFFIX_CE
    ELSE EM_DASH

(***************************************************************************)
(* Tooltip anchoring (geometry-anchored cards)                             *)
(***************************************************************************)
TIP_PAD == 8       \* const pad = 8
TIP_EDGE == 4      \* the 4 px kept to the wrapper's left and right edge
POINTER_PAD == 6   \* const pad = 6 (showTip)
\* wrapEl.getBoundingClientRect().left and .top
WRAP_LEFT == 20
WRAP_TOP == 50

\* let x = anchor.xMid - tw / 2 ... x = Math.max(4, Math.min(x, maxX)),
\* in half pixels: 2 * xMid = left + right
AnchoredLeft2NoEdge(a, wrap, node) ==
    LET x2 == a.left + a.right - node.offsetWidth
        maxX2 == 2 * (wrap.width - node.offsetWidth - TIP_EDGE)
    IN  Min(x2, maxX2)
AnchoredLeft2(a, wrap, node) ==
    LET x2 == a.left + a.right - node.offsetWidth
        maxX2 == 2 * (wrap.width - node.offsetWidth - TIP_EDGE)
    IN  Max(2 * TIP_EDGE, Min(x2, maxX2))

\* let y = anchor.yTop + anchor.hPix + pad; if (y + th > wrapRect.height)
\* { y = anchor.yTop - th - pad; below = false }
AnchoredBelow(a, wrap, node) ==
    ~ (a.yTop + a.hPix + TIP_PAD + node.offsetHeight > wrap.height)

AnchoredTop2(a, wrap, node) ==
    IF AnchoredBelow(a, wrap, node)
    THEN 2 * (a.yTop + a.hPix + TIP_PAD)
    ELSE 2 * (a.yTop - node.offsetHeight - TIP_PAD)

\* showTip: let x = clientX - wrapRect.left - tw / 2 ...
\* x = Math.max(4, Math.min(x, maxX)), in half pixels
PointerLeft2(p, wrap, node) ==
    LET x2 == 2 * (p.clientX - WRAP_LEFT) - node.offsetWidth
        maxX2 == 2 * (wrap.width - node.offsetWidth - TIP_EDGE)
    IN  Max(2 * TIP_EDGE, Min(x2, maxX2))

\* let y = clientY - wrapRect.top - th - pad; if (y < 0) { y = clientY -
\* wrapRect.top + pad; below = true }
PointerBelow(p, node) == p.clientY - WRAP_TOP - node.offsetHeight - POINTER_PAD < 0

PointerTop2(p, node) ==
    IF PointerBelow(p, node)
    THEN 2 * (p.clientY - WRAP_TOP + POINTER_PAD)
    ELSE 2 * (p.clientY - WRAP_TOP - node.offsetHeight - POINTER_PAD)

PointerStyle(p, wrap, node) ==
    [kind |-> "pointer",
     left2 |-> PointerLeft2(p, wrap, node),
     top2 |-> PointerTop2(p, node),
     below |-> PointerBelow(p, node)]

AnchoredStyle(kind, a, wrap, node) ==
    [kind |-> kind,
     left2 |-> AnchoredLeft2(a, wrap, node),
     top2 |-> AnchoredTop2(a, wrap, node),
     below |-> AnchoredBelow(a, wrap, node)]

(***************************************************************************)
(* SpecTip                                                                 *)
(***************************************************************************)
AnchorLefts == {-300, 0, 100, 650}
AnchorWidths == {0, 60, 900}
AnchorTops == {-100, 0, 150, 330}
AnchorHeights == {10, 60, 380}
WrapRects == {[width |-> 800, height |-> 400], [width |-> 320, height |-> 240]}
ClientXs == {0, 30, 400, 815, 1000}
ClientYs == {40, 90, 300}
TipNodes == {[offsetWidth |-> 120, offsetHeight |-> 40],
             [offsetWidth |-> 320, offsetHeight |-> 240],
             [offsetWidth |-> 314, offsetHeight |-> 90]}

InitTip ==
    /\ tipAnchor \in {NoVal} \cup
          {<<[left |-> l, right |-> l + w, yTop |-> t, hPix |-> h]>> :
              l \in AnchorLefts, w \in AnchorWidths,
              t \in AnchorTops, h \in AnchorHeights}
    /\ tipWrap \in WrapRects
    /\ tipNode \in TipNodes
    /\ tipStyle = NoVal
    /\ tipPointer = NoVal
    /\ YearIdle
    /\ ZoomIdle
    /\ LayIdle
    /\ UiIdle
    /\ RowIdle

\* showSegAnchored(seg): no-op while getSegmentAnchorPx returns null
showSegAnchored ==
    /\ tipStyle' = IF tipAnchor = NoVal THEN tipStyle
                   ELSE <<AnchoredStyle("seg", tipAnchor[1], tipWrap, tipNode)>>
    /\ UNCHANGED <<tipAnchor, tipWrap, tipNode, tipPointer>>

\* showDurationAnchored(outline): no-op while getDurationAnchorPx returns null
showDurationAnchored ==
    /\ tipStyle' = IF tipAnchor = NoVal THEN tipStyle
                   ELSE <<AnchoredStyle("duration", tipAnchor[1], tipWrap, tipNode)>>
    /\ UNCHANGED <<tipAnchor, tipWrap, tipNode, tipPointer>>

\* showTip(sel, html, clientX, clientY, accent)
showTip(clientX, clientY) ==
    /\ tipPointer' = <<[clientX |-> clientX, clientY |-> clientY]>>
    /\ tipStyle' = <<PointerStyle([clientX |-> clientX, clientY |-> clientY],
                                  tipWrap, tipNode)>>
    /\ UNCHANGED <<tipAnchor, tipWrap, tipNode>>

NextTip ==
    \/ \E cx \in ClientXs, cy \in ClientYs :
          showTip(cx, cy) /\ UNCHANGED <<yearVars, zoomVars, layVars, uiVars, rowVars>>
    \/ showSegAnchored /\ UNCHANGED <<yearVars, zoomVars, layVars, uiVars, rowVars>>
    \/ showDurationAnchored /\ UNCHANGED <<yearVars, zoomVars, layVars, uiVars, rowVars>>

SpecTip == InitTip /\ [][NextTip]_vars

(***************************************************************************)
(* Zoom/pan transform: d3.zoom() as configured by the two components.      *)
(* The behaviour itself is the d3-zoom library's: a wheel or drag event    *)
(* computes a transform, clamps its k to scaleExtent and passes it through *)
(* the default constrain function with the configured extent and           *)
(* translateExtent; zoom.transform(selection, t) sets t as it is.          *)
(***************************************************************************)
MIN_ZOOM == 9             \* const MIN_ZOOM = 0.9
MAX_ZOOM == 220           \* const MAX_ZOOM = 22
SIMPLE_MIN_ZOOM == 5      \* .scaleExtent([0.5, 24])
SIMPLE_MAX_ZOOM == 240
MARGIN_TOP == 8           \* margin = { top: 8, right: 0, bottom: 28, left: 0 }
MARGIN_BOTTOM == 28
MIN_WIDTH == 320          \* setSize({ width: Math.max(320, width), ...
MIN_HEIGHT == 240

innerWidth(size) == size.width
innerHeight(size) == size.height - MARGIN_TOP - MARGIN_BOTTOM

\* .scaleExtent([MIN_ZOOM, MAX_ZOOM]) / .scaleExtent([0.5, 24])
scaleExtentUnbounded(comp) == [min |-> 0, max |-> 100000]
scaleExtent(comp) ==
    IF comp = "main" THEN [min |-> MIN_ZOOM, max |-> MAX_ZOOM]
    ELSE [min |-> SIMPLE_MIN_ZOOM, max |-> SIMPLE_MAX_ZOOM]

\* d3-zoom scale(transform, k): k clamped to the scale extent
ClampScale(comp, k) ==
    Max(scaleExtent(comp).min, Min(scaleExtent(comp).max, k))

\* one axis of d3-zoom's default constrain with extent = translateExtent =
\* [0, len]: with dx0 = invert(0) - 0 and dx1 = invert(len) - len the
\* transform is translated by (dx0 + dx1) / 2 if dx1 > dx0 (the window is
\* longer than the extent: centre it), else by min(0, dx0) || max(0, dx1).
\* In the transform's own units the new translation is:
ConstrainAxisNone(k, x, len) == x
ConstrainAxis(k, x, len) ==
    IF k < 10 THEN (len * (10 - k)) \div 2
    ELSE IF x > 0 THEN 0
    ELSE IF x < len * (10 - k) THEN len * (10 - k)
    ELSE x

\* .translateExtent([[0,0],[innerWidth, innerHeight]])
\* .extent([[0,0],[innerWidth, innerHeight]])
Constrain(t, size) ==
    [k |-> t.k,
     x |-> ConstrainAxis(t.k, t.x, innerWidth(size)),
     y |-> ConstrainAxis(t.k, t.y, innerHeight(size))]

\* d3-zoom translate(scale(t, k1), p, t.invert(p)): the point under the
\* pointer p (whole pixels) stays where it is; the quotient is rounded down
ScaleAbout(t, k1, px, py) ==
    [k |-> k1,
     x |-> 10 * px - (((10 * px - t.x) * k1) \div t.k),
     y |-> 10 * py - (((10 * py - t.y) * k1) \div t.k)]

\* d3.zoomIdentity.translate(tx, ty).scale(s) with s = MIN_ZOOM,
\* tx = (innerWidth - innerWidth * s) / 2, ty likewise
InitialTransform(size) ==
    [k |-> MIN_ZOOM,
     x |-> (10 * innerWidth(size) - innerWidth(size) * MIN_ZOOM) \div 2,
     y |-> (10 * innerHeight(size) - innerHeight(size) * MIN_ZOOM) \div 2]

zoomIdentity == [k |-> 10, x |-> 0, y |-> 0]

initTDefault(last, size) == InitialTransform(size)
\* const initT = lastTransformRef.current ?? d3.zoomIdentity.translate(..)
initT(last, size) == IF last = NoVal THEN InitialTransform(size) ELSE last[1]

(***************************************************************************)
(* SpecZoom                                                                *)
(***************************************************************************)
Sizes == {[width |-> 800, height |-> 400], [width |-> MIN_WIDTH, height |-> MIN_HEIGHT]}
RawScales == {3, 10, 25, 500}       \* k * 2^delta before the clamp
MaxZoomEvents == 5                  \* events per behaviour
PanDeltas == {<<-2000, 0>>, <<2000, 0>>, <<0, -2000>>, <<0, 2000>>, <<-40, -30>>}

\* where the pointer may be during a wheel event: the corners and the centre
WheelPoints(size) ==
    {<<0, 0>>, <<innerWidth(size) \div 2, innerHeight(size) \div 2>>,
     <<innerWidth(size), innerHeight(size)>>}

\* t.rescaleX(x) and t.rescaleY(y0): the scale that takes a to
\* t.x + t.k * x(a), x being the base scale with range [0, innerWidth] (y0:
\* [0, innerHeight]); held by these three numbers
rescaleX(t, size) == [k |-> t.k, x |-> t.x, range |-> innerWidth(size)]
rescaleY(t, size) == [k |-> t.k, y |-> t.y, range |-> innerHeight(size)]

\* kRef.current = t.k, and apply(zx, zy, k) caching zxRef and zyRef
refsStale(refs, t, size) == refs
refsAfter(refs, t, size) ==
    [kRef |-> t.k, zxRef |-> <<rescaleX(t, size)>>, zyRef |-> <<rescaleY(t, size)>>]

InitZoom ==
    /\ zoomComp \in {"main", "simple"}
    /\ zoomSize = [width |-> 800, height |-> 400]
    /\ zoomRefs = IF zoomComp = "main"
                  THEN refsAfter([kRef |-> 10, zxRef |-> NoVal, zyRef |-> NoVal],
                                 InitialTransform(zoomSize), zoomSize)
                  ELSE [kRef |-> 10, zxRef |-> NoVal, zyRef |-> NoVal]
    /\ zoomNode = IF zoomComp = "main" THEN InitialTransform(zoomSize)
                  ELSE zoomIdentity
    /\ zoomLast = IF zoomComp = "main" THEN <<InitialTransform(zoomSize)>>
                  ELSE NoVal
    /\ zoomEvents = 0
    /\ YearIdle
    /\ TipIdle
    /\ LayIdle
    /\ UiIdle
    /\ RowIdle

\* the "zoom" listener of the render made for size: main remembers the
\* transform (lastTransformRef) and caches the scale factor and the scales
ZoomEvent(t, size) ==
    /\ zoomNode' = t
    /\ zoomLast' = IF zoomComp = "main" THEN <<t>> ELSE zoomLast
    /\ zoomRefs' = IF zoomComp = "main" THEN refsAfter(zoomRefs, t, size)
                   ELSE zoomRefs

\* a wheel event at (px, py) asking for scale raw
Wheel(px, py, raw) ==
    LET k1 == ClampScale(zoomComp, raw)
    IN  /\ zoomEvents < MaxZoomEvents
        /\ zoomEvents' = zoomEvents + 1
        /\ k1 # zoomNode.k
        /\ ZoomEvent(Constrain(ScaleAbout(zoomNode, k1, px, py), zoomSize), zoomSize)
        /\ UNCHANGED <<zoomComp, zoomSize>>

\* a mouse move of a drag, by (dx, dy) pixels
Pan(dx, dy) ==
    /\ zoomEvents < MaxZoomEvents
    /\ zoomEvents' = zoomEvents + 1
    /\ ZoomEvent(Constrain([k |-> zoomNode.k,
                            x |-> zoomNode.x + 10 * dx,
                            y |-> zoomNode.y + 10 * dy], zoomSize), zoomSize)
    /\ UNCHANGED <<zoomComp, zoomSize>>

\* the ResizeObserver sets a new size and the draw effect runs again: main
\* re-applies the persisted transform with zoom.transform, simple only
\* installs a new behaviour on the node, whose __zoom stays
Resize(size) ==
    /\ zoomEvents < MaxZoomEvents
    /\ zoomEvents' = zoomEvents + 1
    /\ size # zoomSize
    /\ zoomSize' = size
    /\ IF zoomComp = "main"
       THEN ZoomEvent(initT(zoomLast, size), size)
       ELSE UNCHANGED <<zoomNode, zoomLast, zoomRefs>>
    /\ UNCHANGED zoomComp

NextZoom ==
    \/ \E p \in WheelPoints(zoomSize), raw \in RawScales :
          Wheel(p[1], p[2], raw) /\ UNCHANGED <<yearVars, tipVars, layVars, uiVars, rowVars>>
    \/ \E d \in PanDeltas : Pan(d[1], d[2]) /\ UNCHANGED <<yearVars, tipVars, layVars, uiVars, rowVars>>
    \/ \E size \in Sizes : Resize(size) /\ UNCHANGED <<yearVars, tipVars, layVars, uiVars, rowVars>>

SpecZoom == InitZoom /\ [][NextZoom]_vars

(***************************************************************************)
(* Base scales and their rescaling by a transform                          *)
(***************************************************************************)
DOMAIN_MIN == -7000        \* domainHuman = [-7000, 2025]
DOMAIN_MAX == 2025

\* x = d3.scaleLinear().domain(domainAstro).range([0, innerWidth]), in
\* hundredths of a pixel, rounded down
xBase100(a, size) ==
    ((a - toAstronomical(DOMAIN_MIN)) * innerWidth(size) * 100)
        \div (toAstronomical(DOMAIN_MAX) - toAstronomical(DOMAIN_MIN))

\* zx = t.rescaleX(x): zx(a) = t.x + t.k * x(a), in mpx
zx(t, a, size) == 100 * t.x + t.k * xBase100(a, size)

\* zy = t.rescaleY(y0), y0 the identity: zy(v) = t.y + t.k * v, in mpx
zy(t, v100) == 100 * t.y + t.k * v100

(***************************************************************************)
(* Entity geometry: the base y of a mark                                   *)
(***************************************************************************)
\* const pad = Math.min(6, Math.max(2, bandH * 0.15)), in hundredths
yPad100(bandH) == Min(600, Max(200, 15 * bandH))

\* yForKey: bandY + pad + r * Math.max(1, bandH - 2 * pad), r = hashString(..)
\* given in hundredths (0 <= r100 < 100)
yForKey100(band, r100) ==
    100 * band.y + yPad100(band.h)
        + ((r100 * Max(100, 100 * band.h - 2 * yPad100(band.h))) \div 100)

(***************************************************************************)
(* Collision-avoidance layout of the text dots (apply)                     *)
(***************************************************************************)
TEXT_BASE_R == 70          \* TEXT_BASE_R = 0.7, times t.k in tenths: mpx

\* const r = TEXT_BASE_R * k
Radius(k) == TEXT_BASE_R * k

\* const laneStepPad = Math.max(1, Math.round(r * 0.15))
laneStepPad(k) == 1000 * Max(1, (Radius(k) * 15 + 50000) \div 100000)

\* minDX, minDY and laneStep are all 2 * r + laneStepPad
minDX(k) == 2 * Radius(k) + laneStepPad(k)
minDYRadius(k) == Radius(k)
minDY(k) == 2 * Radius(k) + laneStepPad(k)
laneStep(k) == 2 * Radius(k) + laneStepPad(k)

\* const maxLanes = Math.max(1, Math.floor(bandHeight / laneStep))
maxLanesNoFloor(bandHeight, k) == bandHeight \div laneStep(k)
maxLanes(bandHeight, k) == Max(1, bandHeight \div laneStep(k))

\* offsets: 0, +step, -step, +2 step, -2 step, ...; the i-th of
\* 2 * maxLanes - 1
LaneOffsetDownFirst(i, k) ==
    IF i = 1 THEN 0
    ELSE IF i % 2 = 0 THEN -((i \div 2) * laneStep(k))
    ELSE (i \div 2) * laneStep(k)
LaneOffset(i, k) ==
    IF i = 1 THEN 0
    ELSE IF i % 2 = 0 THEN (i \div 2) * laneStep(k)
    ELSE -((i \div 2) * laneStep(k))

\* Math.max(bandTop + r, Math.min(bandBottom - r, cy))
ClampCyNone(cy, bandTop, bandBottom, k) == cy
ClampCy(cy, bandTop, bandBottom, k) ==
    Max(bandTop + Radius(k), Min(bandBottom - Radius(k), cy))

\* Math.abs(it.cx - p.cx) < minDX && Math.abs(trialCy - p.cy) < minDY
TooCloseHalfDY(dx, dy, k) == Abs(dx) < minDX(k) /\ 2 * Abs(dy) < minDY(k)
TooClose(dx, dy, k) == Abs(dx) < minDX(k) /\ Abs(dy) < minDY(k)

\* for (let j = placed.length - 1; j >= 0; j--): the scan from placed[j]
\* down, which stops at the first mark farther than minDX to the left
RECURSIVE ScanCollides(_, _, _, _, _)
ScanCollides(placed, j, cx, trialCy, k) ==
    IF j = 0 THEN FALSE
    ELSE IF cx - placed[j].cx > minDX(k) THEN FALSE
    ELSE IF TooClose(cx - placed[j].cx, trialCy - placed[j].cy, k) THEN TRUE
    ELSE ScanCollides(placed, j - 1, cx, trialCy, k)

\* for (const off of offsets): from the i-th offset on; the first trial y
\* that does not collide, else the fallback at the clamped base y. The
\* result is the entry pushed on `placed`, with the row it belongs to and
\* whether an offset was accepted (found)
RECURSIVE TryOffsets(_, _, _, _, _, _, _)
TryOffsets(it, i, lanes, placed, bandTop, bandBottom, k) ==
    IF i > 2 * lanes - 1
    THEN [row |-> it.row, cx |-> it.cx,
          cy |-> ClampCy(it.baseCy, bandTop, bandBottom, k), found |-> FALSE]
    ELSE IF ~ ScanCollides(placed, Len(placed), it.cx,
                           ClampCy(it.baseCy + LaneOffset(i, k), bandTop, bandBottom, k), k)
    THEN [row |-> it.row, cx |-> it.cx,
          cy |-> ClampCy(it.baseCy + LaneOffset(i, k), bandTop, bandBottom, k),
          found |-> TRUE]
    ELSE TryOffsets(it, i + 1, lanes, placed, bandTop, bandBottom, k)

\* for (const it of sorted): the marks from the n-th on, after `placed`
RECURSIVE PlaceFrom(_, _, _, _, _, _)
PlaceFrom(sorted, n, placed, bandTop, bandBottom, k) ==
    IF n > Len(sorted) THEN placed
    ELSE PlaceFrom(sorted, n + 1,
                   Append(placed,
                          TryOffsets(sorted[n], 1, maxLanes(bandBottom - bandTop, k),
                                     placed, bandTop, bandBottom, k)),
                   bandTop, bandBottom, k)

\* .sort((a, b) => a.cx - b.cx): ascending, equal keys in their given order
RECURSIVE SortByCx(_)
SortByCx(items) ==
    IF items = <<>> THEN <<>>
    ELSE LET front == SortByCx(SubSeq(items, 1, Len(items) - 1))
             it == items[Len(items)]
             n == Cardinality({i \in 1..Len(front) : front[i].cx <= it.cx})
         IN  SubSeq(front, 1, n) \o <<it>> \o SubSeq(front, n + 1, Len(front))

\* the rows of one band, in textRows order, with their pixel x and base y
RECURSIVE BandItems(_, _, _, _, _)
BandItems(rows, n, bandId, t, size) ==
    IF n > Len(rows) THEN <<>>
    ELSE IF rows[n].durationId # bandId THEN BandItems(rows, n + 1, bandId, t, size)
    ELSE <<[row |-> n,
            cx |-> zx(t, toAstronomical(rows[n].when), size),
            baseCy |-> zy(t, rows[n].y100)]>>
         \o BandItems(rows, n + 1, bandId, t, size)

\* the placed marks of one band, in placement order
PlacedOfBandUnsorted(rows, outlines, bandId, t, size) ==
    PlaceFrom(BandItems(rows, 1, bandId, t, size), 1, <<>>,
              zy(t, 100 * outlines[bandId].y),
              zy(t, 100 * (outlines[bandId].y + outlines[bandId].h)), t.k)
PlacedOfBand(rows, outlines, bandId, t, size) ==
    PlaceFrom(SortByCx(BandItems(rows, 1, bandId, t, size)), 1, <<>>,
              zy(t, 100 * outlines[bandId].y),
              zy(t, 100 * (outlines[bandId].y + outlines[bandId].h)), t.k)

\* adjustedCy and the final write of cx, cy on every circle.textDot, band
\* by band
TextDots(rows, outlines, t, size) ==
    [b \in DOMAIN outlines |-> PlacedOfBand(rows, outlines, b, t, size)]

(***************************************************************************)
(* SpecLayout                                                              *)
(***************************************************************************)
MaxMarks == 3          \* rows drawn freely
CrowdSize == 20        \* rows of the crowded band: all with the same `when`
LaySize == [width |-> 800, height |-> 400]

LayBands ==
    [thin |-> [start |-> -3000, end |-> -2000, y |-> 40, h |-> 4],
     wide |-> [start |-> -500, end |-> 500, y |-> 100, h |-> 24],
     hair |-> [start |-> 1000, end |-> 2000, y |-> 200, h |-> 1]]

LayWhens == [thin |-> {-2500, -2480}, wide |-> {-1, 0, 1}]
LayHashes == {0, 99}          \* hashString(..), in hundredths

LayRowChoices ==
    {[durationId |-> b, when |-> w, y100 |-> yForKey100(LayBands[b], r)] :
        b \in {"thin"}, w \in LayWhens.thin, r \in LayHashes}
    \cup
    {[durationId |-> b, when |-> w, y100 |-> yForKey100(LayBands[b], r)] :
        b \in {"wide"}, w \in LayWhens.wide, r \in LayHashes}

\* the crowded band: CrowdSize rows at the same year, their hashes spread
CrowdRows ==
    [n \in 1..CrowdSize |->
        [durationId |-> "wide", when |-> 1,
         y100 |-> yForKey100(LayBands.wide, (n * 37) % 100)]]

\* the band of one pixel: two rows of it at the same year, one row of it
\* far from them, and one row of the wide band
HairRows ==
    <<[durationId |-> "hair", when |-> 1500, y100 |-> yForKey100(LayBands.hair, 0)],
      [durationId |-> "hair", when |-> 1500, y100 |-> yForKey100(LayBands.hair, 99)],
      [durationId |-> "hair", when |-> 1000, y100 |-> yForKey100(LayBands.hair, 99)],
      [durationId |-> "wide", when |-> 0, y100 |-> yForKey100(LayBands.wide, 99)]>>

LayTransforms ==
    {[k |-> 9, x |-> 400, y |-> 182], [k |-> 10, x |-> 0, y |-> 0],
     [k |-> 24, x |-> -5000, y |-> -1200], [k |-> 220, x |-> -80000, y |-> -30000]}

InitLayout ==
    /\ layOutlines = LayBands
    /\ layRows \in {CrowdRows, HairRows} \cup
          UNION {[1..n -> LayRowChoices] : n \in 0..MaxMarks}
    /\ layT = NoVal
    /\ layDots = <<>>
    /\ YearIdle
    /\ TipIdle
    /\ ZoomIdle
    /\ UiIdle
    /\ RowIdle

\* apply(zx, zy, k), the text dots
applyKeepingAdjusted(t) ==
    /\ layT' = <<t>>
    /\ layDots' = IF layT = NoVal THEN TextDots(layRows, layOutlines, t, LaySize)
                  ELSE layDots
    /\ UNCHANGED <<layOutlines, layRows>>
apply(t) ==
    /\ layT' = <<t>>
    /\ layDots' = TextDots(layRows, layOutlines, t, LaySize)
    /\ UNCHANGED <<layOutlines, layRows>>

NextLayout ==
    \E t \in LayTransforms : apply(t) /\ UNCHANGED <<yearVars, tipVars, zoomVars, uiVars, rowVars>>

SpecLayout == InitLayout /\ [][NextLayout]_vars

(***************************************************************************)
(* Building the visible marks: authorRows and textRows (part_000).  A      *)
(* string is the sequence of its char codes.  A JavaScript value of a data *)
(* file is [t, n, s]: t its kind, n the number when t = "number", s the    *)
(* string when t = "string"; NaN and Infinity are kinds of their own.      *)
(***************************************************************************)
JsUndefined == [t |-> "undefined", n |-> 0, s |-> <<>>]
JsNull == [t |-> "null", n |-> 0, s |-> <<>>]
JsNaN == [t |-> "nan", n |-> 0, s |-> <<>>]
JsInfinity == [t |-> "infinity", n |-> 0, s |-> <<>>]
JsNum(n) == [t |-> "number", n |-> n, s |-> <<>>]
JsStr(s) == [t |-> "string", n |-> 0, s |-> s]

\* white space that StringToNumber and String.prototype.trim strip
IsWhiteSpace(c) == c \in {9, 10, 13, 32}

RECURSIVE trimStart(_)
trimStart(s) ==
    IF s # <<>> /\ IsWhiteSpace(s[1]) THEN trimStart(SubSeq(s, 2, Len(s))) ELSE s

RECURSIVE trimEnd(_)
trimEnd(s) ==
    IF s # <<>> /\ IsWhiteSpace(s[Len(s)]) THEN trimEnd(SubSeq(s, 1, Len(s) - 1)) ELSE s

trim(s) == trimEnd(trimStart(s))

IsDigits(s) == s # <<>> /\ \A i \in DOMAIN s : s[i] \in 48..57

RECURSIVE DigitsValue(_)
DigitsValue(s) ==
    IF s = <<>> THEN 0
    ELSE 10 * DigitsValue(SubSeq(s, 1, Len(s) - 1)) + (s[Len(s)] - 48)

\* StringToNumber: the trimmed string, empty -> 0, an optionally signed
\* run of decimal digits -> its value, anything else of the strings drawn
\* here -> NaN
StringToNumber(s) ==
    LET str == trim(s)
    IN IF str = <<>> THEN JsNum(0)
       ELSE IF IsDigits(str) THEN JsNum(DigitsValue(str))
       ELSE IF str[1] = 45 /\ IsDigits(SubSeq(str, 2, Len(str)))
       THEN JsNum(-DigitsValue(SubSeq(str, 2, Len(str))))
       ELSE IF str[1] = 43 /\ IsDigits(SubSeq(str, 2, Len(str)))
       THEN JsNum(DigitsValue(SubSeq(str, 2, Len(str))))
       ELSE JsNaN

\* Number(v): ToNumber of undefined is NaN, of null +0, of a string
\* StringToNumber, of a number the number
Number(v) ==
    IF v.t = "undefined" THEN JsNaN
    ELSE IF v.t = "null" THEN JsNum(0)
    ELSE IF v.t = "string" THEN StringToNumber(v.s)
    ELSE v

\* Number.isFinite
isFinite(v) == v.t = "number"

\* getTextDate(row)
getTextDate(row) ==
    IF isFinite(Number(row.Dataviz_date)) THEN Number(row.Dataviz_date) ELSE JsNaN

\* a ^ b of two 16-bit values, bit by bit: p is the weight of the bit
XorBit(a, b, p) == IF (a \div p) % 2 = (b \div p) % 2 THEN 0 ELSE p

Xor16(a, b) ==
    XorBit(a, b, 1) + XorBit(a, b, 2) + XorBit(a, b, 4) + XorBit(a, b, 8)
    + XorBit(a, b, 16) + XorBit(a, b, 32) + XorBit(a, b, 64) + XorBit(a, b, 128)
    + XorBit(a, b, 256) + XorBit(a, b, 512) + XorBit(a, b, 1024)
    + XorBit(a, b, 2048) + XorBit(a, b, 4096) + XorBit(a, b, 8192)
    + XorBit(a, b, 16384) + XorBit(a, b, 32768)

\* the 32-bit h as [hi, lo], 16 bits each.  h ^= c touches the low half
\* (a char code has 16 bits); Math.imul(h, 16777619), 16777619 being
\* 2^24 + 403, keeps the low 32 bits of the product
FnvMul(lo, hi) ==
    [lo |-> (lo * 403) % 65536,
     hi |-> (((lo * 403) \div 65536) + hi * 403 + (lo % 256) * 256) % 65536]

FnvStep(h, c) == FnvMul(Xor16(h.lo, c), h.hi)

\* the loop of hashString(str) from the i-th char on, h being the value so
\* far (a 32-bit value, which the test of its halves spells out)
RECURSIVE FnvOf(_, _, _)
FnvOf(str, i, h) ==
    IF i > Len(str) THEN h
    ELSE IF h.lo \in 0..65535 /\ h.hi \in 0..65535
    THEN FnvOf(str, i + 1, FnvStep(h, str[i]))
    ELSE h

\* hashString(str) before the division by 2 ** 32: 2166136261 is 0x811C9DC5
hashString(str) == FnvOf(str, 1, [hi |-> 33052, lo |-> 40389])

\* (h >>> 0) / 2 ** 32 in hundredths, rounded down
hash100(h) == (100 * h.hi + ((100 * h.lo) \div 65536)) \div 65536

COLONS == <<58, 58>>           \* "::"
ANON == <<97, 110, 111, 110>>  \* "anon"

\* `${n}` of an integer
NumberTemplate(n) == IF n < 0 THEN <<45>> \o NumberToString(-n) ELSE NumberToString(n)

\* a band of durations: [id, start, end, yRel, hRel, y, height], the last
\* four <<v>> or NoVal, yRel and hRel in hundredths
outlineOf(d, size) ==
    [id |-> d.id, start |-> d.start, end |-> d.end,
     y |-> IF d.yRel # NoVal THEN (d.yRel[1] * innerHeight(size)) \div 100
           ELSE IF d.y # NoVal THEN d.y[1] ELSE 0,
     h |-> IF d.hRel # NoVal THEN (d.hRel[1] * innerHeight(size)) \div 100
           ELSE IF d.height # NoVal THEN d.height[1] ELSE 24]

outlines(durs, size) == [i \in DOMAIN durs |-> outlineOf(durs[i], size)]

\* outlinesById.get(id): <<band>>, or NoVal for undefined
outlinesById(outl, id) ==
    IF \E i \in DOMAIN outl : outl[i].id = id
    THEN <<outl[CHOOSE i \in DOMAIN outl : outl[i].id = id]>>
    ELSE NoVal

\* yForKey(key) of the dataset ds in band: the hash of
\* `${ds.durationId}::${key || "anon"}`
yForKey(ds, band, key) ==
    yForKey100(band, hash100(hashString(ds.durationId \o COLONS
                                          \o (IF key = <<>> THEN ANON ELSE key))))

\* the body of the author loop: what one record pushes on rowsA
authorRowOf(ds, band, rec) ==
    IF ~isFinite(Number(rec.Dataviz_birth)) \/ ~isFinite(Number(rec.Dataviz_death))
    THEN <<>>
    ELSE <<[durationId |-> ds.durationId, name |-> trim(rec.Author),
            start |-> Number(rec.Dataviz_birth).n, end |-> Number(rec.Dataviz_death).n,
            y100 |-> yForKey(ds, band, trim(rec.Author))]>>

\* the author loop of one dataset, from the i-th record on
RECURSIVE authorsOf(_, _, _)
authorsOf(ds, band, i) ==
    IF i > Len(ds.authors) THEN <<>>
    ELSE authorRowOf(ds, band, ds.authors[i]) \o authorsOf(ds, band, i + 1)

\* const textKey = `${authorName || "anon"}::${title || ""}::${when}`
textKey(authorName, title, when) ==
    (IF authorName = <<>> THEN ANON ELSE authorName)
        \o COLONS \o title \o COLONS \o NumberTemplate(when)

\* the body of the text loop: what one record pushes on rowsT
textRowOf(ds, band, rec) ==
    IF ~isFinite(getTextDate(rec)) THEN <<>>
    ELSE <<[durationId |-> ds.durationId, title |-> trim(rec.Name),
            when |-> getTextDate(rec).n,
            y100 |-> yForKey(ds, band,
                             textKey(trim(rec.Author), trim(rec.Name),
                                     getTextDate(rec).n))]>>

\* the text loop of one dataset, from the i-th record on
RECURSIVE textsOf(_, _, _)
textsOf(ds, band, i) ==
    IF i > Len(ds.texts) THEN <<>>
    ELSE textRowOf(ds, band, ds.texts[i]) \o textsOf(ds, band, i + 1)

\* for (const ds of datasetRegistry): rowsA and rowsT, from the n-th
\* dataset on; a dataset whose band is unknown is skipped
RECURSIVE pushedA(_, _, _)
pushedA(registry, outl, n) ==
    IF n > Len(registry) THEN <<>>
    ELSE (IF outlinesById(outl, registry[n].durationId) = NoVal THEN <<>>
          ELSE authorsOf(registry[n], outlinesById(outl, registry[n].durationId)[1], 1))
         \o pushedA(registry, outl, n + 1)

RECURSIVE pushedT(_, _, _)
pushedT(registry, outl, n) ==
    IF n > Len(registry) THEN <<>>
    ELSE (IF outlinesById(outl, registry[n].durationId) = NoVal THEN <<>>
          ELSE textsOf(registry[n], outlinesById(outl, registry[n].durationId)[1], 1))
         \o pushedT(registry, outl, n + 1)

\* bandExtent.get(id): <<[min, max]>>, or NoVal
bandExtent(outl, id) ==
    IF outlinesById(outl, id) = NoVal THEN NoVal
    ELSE LET o == outlinesById(outl, id)[1]
         IN <<[min |-> Min(o.start, o.end), max |-> Max(o.start, o.end)]>>

filtANone(rows, outl) == rows
filtA(rows, outl) ==
    LET keep(r) == LET e == bandExtent(outl, r.durationId)
                   IN IF e # NoVal THEN r.end >= e[1].min /\ r.start <= e[1].max
                      ELSE TRUE
    IN SelectSeq(rows, keep)

filtT(rows, outl) ==
    LET keep(r) == LET e == bandExtent(outl, r.durationId)
                   IN IF e # NoVal THEN r.when >= e[1].min /\ r.when <= e[1].max
                      ELSE TRUE
    IN SelectSeq(rows, keep)

(***************************************************************************)
(* SpecRows                                                                *)
(***************************************************************************)
ID_A == <<65>>      \* "A"
ID_T == <<84>>      \* "T"
ID_X == <<88>>      \* "X": the folder of a dataset that has no band

\* band A is placed relative to the height, band T is 4 px high
RowBands ==
    <<[id |-> ID_A, start |-> -500, end |-> 500, yRel |-> <<25>>, hRel |-> <<25>>,
       y |-> NoVal, height |-> NoVal],
      [id |-> ID_T, start |-> 450, end |-> -450, yRel |-> NoVal, hRel |-> NoVal,
       y |-> <<40>>, height |-> <<4>>]>>

\* what a year field of a record holds: nothing, null, "", " ", "?", "-",
\* NaN, Infinity, -400, 900, "-40", " 12 "
RawYears ==
    {JsUndefined, JsNull, JsStr(<<>>), JsStr(<<32>>), JsStr(<<63>>), JsStr(<<45>>),
     JsNaN, JsInfinity, JsNum(-400), JsNum(900), JsStr(<<45, 52, 48>>),
     JsStr(<<32, 49, 50, 32>>)}

RawNames == {<<>>, <<72, 111, 109, 101, 114>>}     \* "", "Homer"

RawAuthors ==
    {[Author |-> nm, Dataviz_birth |-> b, Dataviz_death |-> d] :
        nm \in RawNames, b \in RawYears, d \in RawYears}

RawTexts ==
    {[Name |-> <<73, 108, 105, 97, 100>>, Author |-> nm, Dataviz_date |-> w] :
        nm \in RawNames, w \in RawYears}

\* the records of the first dataset: any author beside a text of the year
\* 900, or any text beside an author of -400 to 900
RawRecords ==
    (RawAuthors \X {[Name |-> <<73, 108, 105, 97, 100>>, Author |-> <<>>,
                     Dataviz_date |-> JsNum(900)]})
    \cup ({[Author |-> <<72, 111, 109, 101, 114>>, Dataviz_birth |-> JsNum(-400),
            Dataviz_death |-> JsNum(900)]} \X RawTexts)

\* a dataset of band A that is well formed
PlainDataset ==
    [durationId |-> ID_A,
     authors |-> <<[Author |-> <<80, 108, 97, 116, 111>>,
                    Dataviz_birth |-> JsNum(-428), Dataviz_death |-> JsNum(-348)]>>,
     texts |-> <<>>]

InitRows ==
    /\ rowSize = [width |-> 800, height |-> 400]
    /\ rowDurations = RowBands
    /\ rowRegistry \in
          {<<[durationId |-> id, authors |-> <<rec[1]>>, texts |-> <<rec[2]>>], PlainDataset>> :
              id \in {ID_A, ID_T, ID_X}, rec \in RawRecords}
    /\ rowsA = filtA(pushedA(rowRegistry, outlines(rowDurations, rowSize), 1),
                     outlines(rowDurations, rowSize))
    /\ rowsT = filtT(pushedT(rowRegistry, outlines(rowDurations, rowSize), 1),
                     outlines(rowDurations, rowSize))
    /\ YearIdle
    /\ TipIdle
    /\ ZoomIdle
    /\ LayIdle
    /\ UiIdle

\* the ResizeObserver callback, and the useMemo of authorRows and textRows
\* that runs again because outlines depends on innerHeight
RowsResize(width, height) ==
    /\ rowSize' = [width |-> Max(MIN_WIDTH, width), height |-> Max(MIN_HEIGHT, height)]
    /\ rowsA' = filtA(pushedA(rowRegistry, outlines(rowDurations, rowSize'), 1),
                      outlines(rowDurations, rowSize'))
    /\ rowsT' = filtT(pushedT(rowRegistry, outlines(rowDurations, rowSize'), 1),
                      outlines(rowDurations, rowSize'))
    /\ UNCHANGED <<rowDurations, rowRegistry>>

ContentRects == {[width |-> 800, height |-> 400], [width |-> 200, height |-> 100],
                 [width |-> 1200, height |-> 828]}

NextRows ==
    \E c \in ContentRects :
        RowsResize(c.width, c.height)
            /\ UNCHANGED <<yearVars, tipVars, zoomVars, layVars, uiVars>>

SpecRows == InitRows /\ [][NextRows]_vars

(***************************************************************************)
(* The interaction state of the main timeline (part_000).  A handler is an *)
(* operator from the refs before it runs to the refs after it; State is    *)
(* the record of the refs, and Commit(s) writes a record back.  The label  *)
(* opacities and the strokes of the segment rects are attributes of the    *)
(* drawing and are held in the same record.                                *)
(***************************************************************************)
ZOOM_THRESHOLD == 24       \* const ZOOM_THRESHOLD = 2.4

State ==
    [kRef |-> kRef, prevZoomedInRef |-> prevZoomedInRef,
     zoomDraggingRef |-> zoomDraggingRef, lastTransformRef |-> lastTransformRef,
     hoveredDurationIdRef |-> hoveredDurationIdRef,
     activeDurationIdRef |-> activeDurationIdRef,
     awaitingCloseClickRef |-> awaitingCloseClickRef,
     activeSegIdRef |-> activeSegIdRef,
     hoveredSegParentIdRef |-> hoveredSegParentIdRef,
     pointerEvents |-> pointerEvents, tips |-> tips, selected |-> selected,
     cardPos |-> cardPos, authorCardPos |-> authorCardPos,
     labelOpacity |-> labelOpacity, segStroke |-> segStroke]

Commit(s) ==
    /\ kRef' = s.kRef
    /\ prevZoomedInRef' = s.prevZoomedInRef
    /\ zoomDraggingRef' = s.zoomDraggingRef
    /\ lastTransformRef' = s.lastTransformRef
    /\ hoveredDurationIdRef' = s.hoveredDurationIdRef
    /\ activeDurationIdRef' = s.activeDurationIdRef
    /\ awaitingCloseClickRef' = s.awaitingCloseClickRef
    /\ activeSegIdRef' = s.activeSegIdRef
    /\ hoveredSegParentIdRef' = s.hoveredSegParentIdRef
    /\ pointerEvents' = s.pointerEvents
    /\ tips' = s.tips
    /\ selected' = s.selected
    /\ cardPos' = s.cardPos
    /\ authorCardPos' = s.authorCardPos
    /\ labelOpacity' = s.labelOpacity
    /\ segStroke' = s.segStroke

\* tipAuthor, tipText, tipSeg, tipDur
hideTipSel(s, sel) == [s EXCEPT !.tips = @ \ {sel}]
\* .style("display", "block").style("opacity", 1) of showTip, showSegAnchored
\* and showDurationAnchored (zxRef and zyRef are set from the first apply on)
showTipSel(s, sel) == [s EXCEPT !.tips = @ \cup {sel}]

\* the opacity updateHoverVisuals gives the label of band d
labelOpacityHoverFirst(s, d) ==
    IF d = s.hoveredDurationIdRef \/ d = s.hoveredSegParentIdRef
    THEN DUR_LABEL_OPACITY.hover
    ELSE IF \/ d = s.activeDurationIdRef
            \/ \E seg \in Segments : seg.id = s.activeSegIdRef /\ d = seg.parentId
    THEN DUR_LABEL_OPACITY.active
    ELSE DUR_LABEL_OPACITY.base
labelOpacityOf(s, d) ==
    IF \/ d = s.activeDurationIdRef
       \/ \E seg \in Segments : seg.id = s.activeSegIdRef /\ d = seg.parentId
    THEN DUR_LABEL_OPACITY.active
    ELSE IF /\ s.activeDurationIdRef = NONE
            /\ (d = s.hoveredDurationIdRef \/ d = s.hoveredSegParentIdRef)
    THEN DUR_LABEL_OPACITY.hover
    ELSE DUR_LABEL_OPACITY.base

\* the labels' part of updateHoverVisuals
updateHoverVisuals(s) ==
    [s EXCEPT !.labelOpacity = [d \in OutlineIds |-> labelOpacityOf(s, d)]]

clearActiveSegment(s) ==
    updateHoverVisuals(
        hideTipSel([s EXCEPT !.activeSegIdRef = NONE,
                             !.hoveredSegParentIdRef = NONE,
                             !.segStroke = [id \in DOMAIN @ |-> SEG_STROKE.base]],
                   "tipSeg"))

clearActiveDuration(s) ==
    updateHoverVisuals(
        hideTipSel([s EXCEPT !.activeDurationIdRef = NONE,
                             !.awaitingCloseClickRef = FALSE], "tipDur"))

\* a null seg is held as NullSeg
setActiveSegment(s, seg, showCard) ==
    IF seg.id = NONE THEN clearActiveSegment(s)
    ELSE updateHoverVisuals(
             [s EXCEPT !.activeSegIdRef = seg.id,
                       !.segStroke = [id \in DOMAIN @ |->
                                         IF id = seg.id THEN SEG_STROKE.active
                                         ELSE SEG_STROKE.base],
                       !.tips = IF showCard THEN @ \cup {"tipSeg"} ELSE @ \ {"tipSeg"}])

setActiveDuration(s, d, showCard) ==
    IF d = NONE THEN clearActiveDuration(s)
    ELSE updateHoverVisuals(
             [s EXCEPT !.activeDurationIdRef = d,
                       !.tips = IF showCard THEN @ \cup {"tipDur"} ELSE @])

previewSegmentHighlightAlsoActive(s, seg, on) ==
    IF seg.id = NONE THEN s
    ELSE [s EXCEPT !.segStroke[seg.id] =
                       IF on THEN SEG_STROKE.hover ELSE SEG_STROKE.base]
\* preview of a segment's border, the active segment's excepted
previewSegmentHighlight(s, seg, on) ==
    IF seg.id = NONE \/ seg.id = s.activeSegIdRef THEN s
    ELSE [s EXCEPT !.segStroke[seg.id] =
                       IF on THEN SEG_STROKE.hover ELSE SEG_STROKE.base]

syncDurationHoverAnyEvent(s, se) ==
    LET newId == IF se.el.class = "outlineRect" THEN se.el.id ELSE NONE
    IN IF s.kRef >= ZOOM_THRESHOLD THEN s
       ELSE IF s.hoveredDurationIdRef # newId
       THEN updateHoverVisuals([s EXCEPT !.hoveredDurationIdRef = newId])
       ELSE s
syncDurationHoverUnlessActive(s, se) ==
    LET newId == IF se.el.class = "outlineRect" THEN se.el.id ELSE NONE
    IN IF se.kind # "mouse" \/ s.kRef >= ZOOM_THRESHOLD \/ s.activeDurationIdRef # NONE
       THEN s
       ELSE IF s.hoveredDurationIdRef # newId
       THEN updateHoverVisuals([s EXCEPT !.hoveredDurationIdRef = newId])
       ELSE s
syncDurationHoverFromPointer(s, se) ==
    LET newId == IF se.el.class = "outlineRect" THEN se.el.id ELSE NONE
    IN IF se.kind # "mouse" \/ s.kRef >= ZOOM_THRESHOLD THEN s
       ELSE IF s.hoveredDurationIdRef # newId
       THEN updateHoverVisuals([s EXCEPT !.hoveredDurationIdRef = newId])
       ELSE s

\* the pointer-events style updateInteractivity gives the four layers
pointerEventsAll(k) ==
    [outlineRect |-> "all", segmentHit |-> "all", author |-> "all", textDot |-> "all"]
pointerEventsFor(k) ==
    LET zoomedIn == k >= ZOOM_THRESHOLD
    IN [outlineRect |-> IF zoomedIn THEN "none" ELSE "all",
        segmentHit |-> IF zoomedIn THEN "all" ELSE "none",
        author |-> IF zoomedIn THEN "all" ELSE "none",
        textDot |-> IF zoomedIn THEN "all" ELSE "none"]

updateInteractivityNoGate(s, k) ==
    updateHoverVisuals(
        IF ~(k >= ZOOM_THRESHOLD) THEN clearActiveSegment(s) ELSE clearActiveDuration(s))
updateInteractivity(s, k) ==
    updateHoverVisuals(
        IF ~(k >= ZOOM_THRESHOLD)
        THEN clearActiveSegment([s EXCEPT !.pointerEvents = pointerEventsFor(k)])
        ELSE clearActiveDuration([s EXCEPT !.pointerEvents = pointerEventsFor(k)]))

\* the "leaving whole-duration mode" branch of the threshold handoff
leavingWholeDurationModeKeepHover(s) ==
    updateHoverVisuals(
        clearActiveDuration([s EXCEPT !.awaitingCloseClickRef = FALSE]))
leavingWholeDurationMode(s) ==
    updateHoverVisuals(
        clearActiveDuration([s EXCEPT !.hoveredDurationIdRef = NONE,
                                      !.awaitingCloseClickRef = FALSE]))

reanchorCardsNone(s) == s
\* re-anchoring of the open cards in the zoom handler
reanchorCards(s) ==
    [s EXCEPT !.tips = @ \cup (IF s.activeSegIdRef # NONE THEN {"tipSeg"} ELSE {})
                         \cup (IF s.activeDurationIdRef # NONE THEN {"tipDur"} ELSE {})]

thresholdHandoff(s, zoomedIn, wasZoomedIn) ==
    IF zoomedIn /\ ~wasZoomedIn THEN leavingWholeDurationMode(s)
    ELSE IF ~zoomedIn /\ wasZoomedIn THEN updateHoverVisuals(clearActiveSegment(s))
    ELSE s

onZoomNoModeMemory(s, t, se) ==
    thresholdHandoff(
        reanchorCards(
            syncDurationHoverFromPointer(
                updateInteractivity([s EXCEPT !.lastTransformRef = <<t>>,
                                              !.kRef = t.k], t.k), se)),
        t.k >= ZOOM_THRESHOLD, s.prevZoomedInRef)
\* .on("zoom", (event) => ...) with event.transform = t, event.sourceEvent = se
onZoom(s, t, se) ==
    [thresholdHandoff(
        reanchorCards(
            syncDurationHoverFromPointer(
                updateInteractivity([s EXCEPT !.lastTransformRef = <<t>>,
                                              !.kRef = t.k], t.k), se)),
        t.k >= ZOOM_THRESHOLD, s.prevZoomedInRef)
     EXCEPT !.prevZoomedInRef = t.k >= ZOOM_THRESHOLD]

onStart(s) == [s EXCEPT !.zoomDraggingRef = TRUE]

onEnd(s, se) ==
    updateHoverVisuals(
        syncDurationHoverFromPointer([s EXCEPT !.zoomDraggingRef = FALSE], se))

\* the draw effect: kRef from the persisted transform, the four tooltip divs
\* (re)made hidden, zoom.transform(initT) dispatching start, zoom and end
\* with no source event, then updateInteractivity(initT.k)
draw(s, size) ==
    LET t == initT(s.lastTransformRef, size)
    IN updateInteractivity(
           onEnd(onZoom(onStart([s EXCEPT !.kRef = t.k, !.tips = {}]),
                        t, NoSourceEvent),
                 NoSourceEvent),
           t.k)

clickClearActiveOnlyFlag(s, el) ==
    IF s.awaitingCloseClickRef
    THEN clearActiveDuration([s EXCEPT !.awaitingCloseClickRef = FALSE])
    ELSE s
\* svgSel.on("click.clearActive", ...) with ev.target = el
clickClearActive(s, el) ==
    IF s.awaitingCloseClickRef
    THEN clearActiveDuration([s EXCEPT !.awaitingCloseClickRef = FALSE])
    ELSE IF el.class # "segmentHit" /\ el.class # "outlineRect"
    THEN clearActiveDuration(clearActiveSegment(s))
    ELSE s

\* the handlers of rect.outlineRect; d is the band id
outlineRectMouseenter(s, d) ==
    IF s.kRef >= ZOOM_THRESHOLD THEN s
    ELSE IF s.activeDurationIdRef # NONE THEN s
    ELSE updateHoverVisuals([s EXCEPT !.hoveredDurationIdRef = d])

outlineRectMouseleaveInGesture(s) ==
    IF s.kRef >= ZOOM_THRESHOLD THEN s
    ELSE IF s.activeDurationIdRef # NONE THEN s
    ELSE updateHoverVisuals([s EXCEPT !.hoveredDurationIdRef = NONE])
outlineRectMouseleave(s) ==
    IF s.kRef >= ZOOM_THRESHOLD THEN s
    ELSE IF s.zoomDraggingRef THEN s
    ELSE IF s.activeDurationIdRef # NONE THEN s
    ELSE updateHoverVisuals([s EXCEPT !.hoveredDurationIdRef = NONE])

outlineRectClickNoArm(s, d) ==
    IF s.kRef >= ZOOM_THRESHOLD
    THEN clickClearActive(s, [class |-> "outlineRect", id |-> d])
    ELSE IF s.awaitingCloseClickRef
    THEN clearActiveDuration([s EXCEPT !.awaitingCloseClickRef = FALSE])
    ELSE setActiveDuration(clearActiveSegment(s), d, TRUE)
outlineRectClickAlwaysOpens(s, d) ==
    IF s.kRef >= ZOOM_THRESHOLD
    THEN clickClearActive(s, [class |-> "outlineRect", id |-> d])
    ELSE [setActiveDuration(clearActiveSegment(s), d, TRUE)
          EXCEPT !.awaitingCloseClickRef = TRUE]
\* returning before stopPropagation leaves the click to the svg's handler
outlineRectClick(s, d) ==
    IF s.kRef >= ZOOM_THRESHOLD
    THEN clickClearActive(s, [class |-> "outlineRect", id |-> d])
    ELSE IF s.awaitingCloseClickRef
    THEN clearActiveDuration([s EXCEPT !.awaitingCloseClickRef = FALSE])
    ELSE [setActiveDuration(clearActiveSegment(s), d, TRUE)
          EXCEPT !.awaitingCloseClickRef = TRUE]

\* the handlers of rect.segmentHit; seg is [id, parentId]
segmentHitMouseenter(s, seg) ==
    IF s.activeSegIdRef = seg.id THEN s
    ELSE updateHoverVisuals([s EXCEPT !.hoveredSegParentIdRef = seg.parentId,
                                      !.segStroke[seg.id] = SEG_STROKE.hover])

segmentHitMouseleave(s, seg) ==
    IF s.zoomDraggingRef THEN s
    ELSE IF s.activeSegIdRef = seg.id THEN s
    ELSE updateHoverVisuals([s EXCEPT !.hoveredSegParentIdRef = NONE,
                                      !.segStroke[seg.id] = SEG_STROKE.base])

segmentHitClickNoToggle(s, seg) ==
    clickClearActive(
        setActiveSegment(clearActiveDuration(clearActiveSegment(s)), seg, TRUE),
        [class |-> "segmentHit", id |-> seg.id])
\* no stopPropagation: the click goes on to the svg's handler
segmentHitClick(s, seg) ==
    clickClearActive(
        IF s.activeSegIdRef = seg.id THEN clearActiveSegment(s)
        ELSE setActiveSegment(clearActiveDuration(clearActiveSegment(s)), seg, TRUE),
        [class |-> "segmentHit", id |-> seg.id])

within(v, a, b) == v >= Min(a, b) /\ v <= Max(a, b)
overlaps(a0, a1, b0, b1) == Max(a0, b0) <= Min(a1, b1)

\* segments.find(..): the first segment of the array that matches, or null
FirstSeg(matching) ==
    IF matching = {} THEN NullSeg
    ELSE segments[CHOOSE i \in matching : \A j \in matching : i <= j]

findSegForAuthor(d) ==
    FirstSeg({i \in DOMAIN segments :
                 /\ segments[i].parentId = d.durationId
                 /\ overlaps(Min(d.start, d.end), Max(d.start, d.end),
                             segments[i].start, segments[i].end)
                 /\ within(d.y, segments[i].y, segments[i].y + segments[i].h)})

findSegForText(d) ==
    FirstSeg({i \in DOMAIN segments :
                 /\ segments[i].parentId = d.durationId
                 /\ d.when >= segments[i].start
                 /\ d.when <= segments[i].end
                 /\ within(d.y, segments[i].y, segments[i].y + segments[i].h)})

\* the handlers of line.author and circle.textDot; tip is tipAuthor or
\* tipText, kind "author" or "text", seg what findSegForAuthor or
\* findSegForText gives for the mark
markMouseenter(s, tip, seg) == showTipSel(previewSegmentHighlight(s, seg, TRUE), tip)
markMousemove(s, tip) == showTipSel(s, tip)
markMouseleave(s, tip, seg) == previewSegmentHighlight(hideTipSel(s, tip), seg, FALSE)
CARD_PAD == 12             \* const PAD = 12
AUTHOR_CARD_W == 420       \* author click: CARD_W, CARD_H
AUTHOR_CARD_H == 360
TEXT_CARD_W == 360         \* text click: CARD_W, CARD_H
TEXT_CARD_H == 320

\* left and top of a card for the anchor a (a.x - wrapRect.left and
\* a.y - wrapRect.top, px) in the wrapper wrap
CardPosition(a, wrap, cardW, cardH) ==
    [left |-> Max(4, Min(a.x + CARD_PAD, wrap.width - cardW - 4)),
     top |-> Max(4, Min(a.y + CARD_PAD, wrap.height - cardH - 4))]

markClickKeepSegment(s, kind, a, wrap) ==
    IF kind = "author"
    THEN [s EXCEPT !.tips = {}, !.selected = kind,
             !.authorCardPos = CardPosition(a, wrap, AUTHOR_CARD_W, AUTHOR_CARD_H)]
    ELSE [s EXCEPT !.tips = {}, !.selected = kind,
             !.cardPos = CardPosition(a, wrap, TEXT_CARD_W, TEXT_CARD_H)]
\* the click handler of a mark whose anchor is a, with the effect that hides
\* every .tl-tooltip once the modal is open
markClick(s, kind, a, wrap) ==
    IF kind = "author"
    THEN [clearActiveSegment(s) EXCEPT !.tips = {}, !.selected = kind,
             !.authorCardPos = CardPosition(a, wrap, AUTHOR_CARD_W, AUTHOR_CARD_H)]
    ELSE [clearActiveSegment(s) EXCEPT !.tips = {}, !.selected = kind,
             !.cardPos = CardPosition(a, wrap, TEXT_CARD_W, TEXT_CARD_H)]

\* whether the click handler of the target calls ev.stopPropagation()
stopsPropagation(s, el) ==
    IF el.class = "outlineRect" THEN s.kRef < ZOOM_THRESHOLD
    ELSE el.class = "author" \/ el.class = "textDot"

svgMouseleave(s) == hideTipSel(hideTipSel(s, "tipAuthor"), "tipText")

closeAll(s) == [s EXCEPT !.selected = NONE]

(***************************************************************************)
(* Spec: the handlers as the browser and d3.zoom call them.  A layer with  *)
(* pointer-events: none receives no mouseenter and no click; mouseleave    *)
(* goes to the element that got the last mouseenter.                       *)
(***************************************************************************)
OutlineEls == {[class |-> "outlineRect", id |-> d] : d \in OutlineIds}
SegmentEls == {[class |-> "segmentHit", id |-> seg.id] : seg \in Segments}
AUTHOR == [class |-> "author", id |-> "au"]
TEXTDOT == [class |-> "textDot", id |-> "tx"]
MarkEls == {AUTHOR, TEXTDOT}
SegOf(el) == CHOOSE seg \in Segments : seg.id = el.id
TipOf(el) == IF el.class = "author" THEN "tipAuthor" ELSE "tipText"
KindOf(el) == IF el.class = "author" THEN "author" ELSE "text"
\* the segment that the handlers of the mark look up
FoundSegOf(el) ==
    IF el.class = "author"
    THEN findSegForAuthor(CHOOSE d \in authorRows : d.id = el.id)
    ELSE findSegForText(CHOOSE d \in textRows : d.id = el.id)
UiSize == [width |-> 800, height |-> 400]
\* the transforms a gesture delivers (SpecZoom computes them)
TickTransforms ==
    {[k |-> 9, x |-> 400, y |-> 182], [k |-> 23, x |-> -5000, y |-> -1200],
     [k |-> 24, x |-> -5000, y |-> -1200], [k |-> 220, x |-> -80000, y |-> -30000]}
\* the source event of a gesture: a touch, or a mouse or wheel event over an
\* outline or over none (below the threshold no other layer can be hit)
SourceEvents == {TouchEvent} \cup {MouseEvent(el) : el \in OutlineEls \cup {SVG}}

\* where the anchor of a mark may be, relative to the wrapper, px
MarkAnchors == {[x |-> 100, y |-> 10], [x |-> 700, y |-> 390]}

\* a zoom event of the behaviour, with its source event
ZoomEventFrom(type, se) ==
    /\ lastEvent' = [type |-> type, target |-> SVG]
    /\ clickSeenBySvg' = FALSE
    /\ sourceEvent' = se

\* a pointer event other than a click, or a run of the draw effect
Event(type, target) ==
    /\ lastEvent' = [type |-> type, target |-> target]
    /\ clickSeenBySvg' = FALSE
    /\ sourceEvent' = NoSourceEvent

Init ==
    /\ YearIdle
    /\ TipIdle
    /\ ZoomIdle
    /\ LayIdle
    /\ RowIdle
    /\ Holds(draw(Mounted, UiSize))
    /\ hoverEl = SVG
    /\ lastEvent = [type |-> "draw", target |-> SVG]
    /\ clickSeenBySvg = FALSE
    /\ sourceEvent = NoSourceEvent

Mouseenter(el) ==
    /\ hoverEl = SVG
    /\ pointerEvents[el.class] = "all"
    /\ hoverEl' = el
    /\ Event("mouseenter", el)
    /\ Commit(IF el.class = "outlineRect" THEN outlineRectMouseenter(State, el.id)
              ELSE IF el.class = "segmentHit" THEN segmentHitMouseenter(State, SegOf(el))
              ELSE markMouseenter(State, TipOf(el), FoundSegOf(el)))

Mousemove(el) ==
    /\ hoverEl = el
    /\ pointerEvents[el.class] = "all"
    /\ Event("mousemove", el)
    /\ Commit(markMousemove(State, TipOf(el)))
    /\ UNCHANGED hoverEl

Mouseleave(el) ==
    /\ hoverEl = el
    /\ hoverEl' = SVG
    /\ Event("mouseleave", el)
    /\ Commit(IF el.class = "outlineRect" THEN outlineRectMouseleave(State)
              ELSE IF el.class = "segmentHit" THEN segmentHitMouseleave(State, SegOf(el))
              ELSE markMouseleave(State, TipOf(el), FoundSegOf(el)))

SvgMouseleave ==
    /\ hoverEl = SVG
    /\ Event("mouseleave", SVG)
    /\ Commit(svgMouseleave(State))
    /\ UNCHANGED hoverEl

Click(el, a) ==
    /\ el # SVG => pointerEvents[el.class] = "all"
    /\ lastEvent' = [type |-> "click", target |-> el]
    /\ clickSeenBySvg' = ~stopsPropagation(State, el)
    /\ sourceEvent' = NoSourceEvent
    /\ Commit(IF el.class = "outlineRect" THEN outlineRectClick(State, el.id)
              ELSE IF el.class = "segmentHit" THEN segmentHitClick(State, SegOf(el))
              ELSE IF el = SVG THEN clickClearActive(State, SVG)
              ELSE markClick(State, KindOf(el), a, UiSize))
    /\ UNCHANGED hoverEl

CloseAll ==
    /\ selected # NONE
    /\ Event("closeAll", SVG)
    /\ Commit(closeAll(State))
    /\ UNCHANGED hoverEl

ZoomStart ==
    /\ ~zoomDraggingRef
    /\ Event("start", SVG)
    /\ Commit(onStart(State))
    /\ UNCHANGED hoverEl

ZoomTick(t, se) ==
    /\ zoomDraggingRef
    /\ ZoomEventFrom("zoom", se)
    /\ Commit(onZoom(State, t, se))
    /\ UNCHANGED hoverEl

ZoomEnd(se) ==
    /\ zoomDraggingRef
    /\ ZoomEventFrom("end", se)
    /\ Commit(onEnd(State, se))
    /\ UNCHANGED hoverEl

\* the draw effect running again (a resize changed width or height)
Redraw(size) ==
    /\ Event("draw", SVG)
    /\ Commit(draw(State, size))
    /\ UNCHANGED hoverEl

Next ==
    \/ \E el \in OutlineEls \cup SegmentEls \cup MarkEls :
          Mouseenter(el) /\ UNCHANGED <<yearVars, tipVars, zoomVars, layVars, rowVars>>
    \/ \E el \in MarkEls : Mousemove(el) /\ UNCHANGED <<yearVars, tipVars, zoomVars, layVars, rowVars>>
    \/ \E el \in OutlineEls \cup SegmentEls \cup MarkEls :
          Mouseleave(el) /\ UNCHANGED <<yearVars, tipVars, zoomVars, layVars, rowVars>>
    \/ SvgMouseleave /\ UNCHANGED <<yearVars, tipVars, zoomVars, layVars, rowVars>>
    \/ \E el \in OutlineEls \cup SegmentEls \cup MarkEls \cup {SVG}, a \in MarkAnchors :
          Click(el, a) /\ UNCHANGED <<yearVars, tipVars, zoomVars, layVars, rowVars>>
    \/ CloseAll /\ UNCHANGED <<yearVars, tipVars, zoomVars, layVars, rowVars>>
    \/ ZoomStart /\ UNCHANGED <<yearVars, tipVars, zoomVars, layVars, rowVars>>
    \/ \E t \in TickTransforms, se \in SourceEvents :
          ZoomTick(t, se) /\ UNCHANGED <<yearVars, tipVars, zoomVars, layVars, rowVars>>
    \/ \E se \in SourceEvents : ZoomEnd(se) /\ UNCHANGED <<yearVars, tipVars, zoomVars, layVars, rowVars>>
    \/ \E size \in Sizes : Redraw(size) /\ UNCHANGED <<yearVars, tipVars, zoomVars, layVars, rowVars>>

Spec == Init /\ [][Next]_vars

(***************************************************************************)
(* SpecYear                                                                *)
(***************************************************************************)
MaxBCE == 3100
MaxCE == 2025
Years == (-MaxBCE)..MaxCE

InitYear ==
    /\ yearIn \in Years
    /\ astro = NoVal
    /\ human = NoVal
    /\ label = NoVal
    /\ TipIdle
    /\ ZoomIdle
    /\ LayIdle
    /\ UiIdle
    /\ RowIdle

\* domainHuman.map(toAstronomical), zx(toAstronomical(d.start)), ...
DoToAstronomical ==
    /\ astro = NoVal
    /\ human = NoVal
    /\ astro' = <<toAstronomical(yearIn)>>
    /\ UNCHANGED <<yearIn, human, label>>

\* the inverse applied to a value toAstronomical produced
DoFromAstronomical ==
    /\ astro # NoVal
    /\ human = NoVal
    /\ human' = <<fromAstronomical(astro[1])>>
    /\ UNCHANGED <<yearIn, astro, label>>

\* the inverse applied to an arbitrary astronomical value (a tick position)
DoFromAstronomicalOfInput ==
    /\ astro = NoVal
    /\ human = NoVal
    /\ human' = <<fromAstronomical(yearIn)>>
    /\ UNCHANGED <<yearIn, astro, label>>

DoFormatYear ==
    /\ label = NoVal
    /\ label' = formatYear(yearIn)
    /\ UNCHANGED <<yearIn, astro, human>>

NextYear ==
    \/ DoToAstronomical /\ UNCHANGED <<tipVars, zoomVars, layVars, uiVars, rowVars>>
    \/ DoFromAstronomical /\ UNCHANGED <<tipVars, zoomVars, layVars, uiVars, rowVars>>
    \/ DoFromAstronomicalOfInput /\ UNCHANGED <<tipVars, zoomVars, layVars, uiVars, rowVars>>
    \/ DoFormatYear /\ UNCHANGED <<tipVars, zoomVars, layVars, uiVars, rowVars>>

SpecYear == InitYear /\ [][NextYear]_vars

(***************************************************************************)
(* Claims about the year helpers                                           *)
(***************************************************************************)

\* C8: year round trip: for every integer human year y # 0,
\* fromAstronomical(toAstronomical(y)) = y.
C8_YearRoundTrip ==
    (astro # NoVal /\ human # NoVal /\ yearIn # 0) => human = <<yearIn>>

\* a round trip through astronomical 0 (human year -1) has completed
C8_Witness == yearIn = -1 /\ astro = <<0>> /\ human = <<-1>>

\* C9: no year zero: fromAstronomical(a) # 0 for every integer a, and
\* fromAstronomical(toAstronomical(y)) # 0 for every integer y, y = 0 included.
C9_NoYearZero ==
    /\ human # NoVal => human[1] # 0
    /\ (yearIn = 0 /\ astro # NoVal) => astro = <<1>>
    /\ (yearIn = 0 /\ astro # NoVal /\ human # NoVal) => human = <<1>>

\* the inverse has been applied to astronomical 0, and the round trip of
\* human year 0 has completed
C9_Witness ==
    \/ yearIn = 0 /\ astro = NoVal /\ human = <<-1>>
    \/ yearIn = 0 /\ astro = <<1>> /\ human = <<1>>

\* the number a string of decimal digits denotes; -1 if it is empty, holds a
\* code unit that is no digit, or has a leading zero
RECURSIVE DecimalValue(_)
DecimalValue(str) ==
    IF str = <<>> THEN -1
    ELSE LET d == str[Len(str)] - 48
         IN  IF d < 0 \/ d > 9 THEN -1
             ELSE IF Len(str) = 1 THEN d
             ELSE LET rest == DecimalValue(SubSeq(str, 1, Len(str) - 1))
                  IN  IF rest <= 0 THEN -1 ELSE 10 * rest + d

\* C10: year formatting: "<|y|> BCE" for y < 0, "<y> CE" for y > 0, the
\* em-dash for y = 0; formatYear(-3100) = "3100 BCE", formatYear(2025) =
\* "2025 CE".
C10_FormatYear ==
    label # NoVal =>
        /\ yearIn < 0 =>
              /\ Len(label) >= 5
              /\ SubSeq(label, Len(label) - 3, Len(label)) = <<32, 66, 67, 69>>
              /\ DecimalValue(SubSeq(label, 1, Len(label) - 4)) = -yearIn
        /\ yearIn > 0 =>
              /\ Len(label) >= 4
              /\ SubSeq(label, Len(label) - 2, Len(label)) = <<32, 67, 69>>
              /\ DecimalValue(SubSeq(label, 1, Len(label) - 3)) = yearIn
        /\ yearIn = 0 => label = <<8212>>
        /\ yearIn = -3100 => label = <<51, 49, 48, 48, 32, 66, 67, 69>>
        /\ yearIn = 2025 => label = <<50, 48, 50, 53, 32, 67, 69>>

\* formatYear(-3100) has been evaluated
C10_Witness == yearIn = -3100 /\ label # NoVal /\ Len(label) = 8

(***************************************************************************)
(* Claims about tooltip anchoring                                          *)
(***************************************************************************)

\* C7: tooltip containment: for any element geometry and any viewport at
\* least as wide and as high as the tooltip, the rectangle at which the
\* geometry-anchored band or segment tooltip is placed lies fully inside
\* the viewport.
C7_TooltipContained ==
    (/\ tipStyle # NoVal
     /\ tipWrap.width >= tipNode.offsetWidth
     /\ tipWrap.height >= tipNode.offsetHeight)
    => /\ tipStyle[1].left2 >= 0
       /\ tipStyle[1].left2 + 2 * tipNode.offsetWidth <= 2 * tipWrap.width
       /\ tipStyle[1].top2 >= 0
       /\ tipStyle[1].top2 + 2 * tipNode.offsetHeight <= 2 * tipWrap.height

(***************************************************************************)
(* Claims about the zoom/pan transform                                     *)
(***************************************************************************)

\* C5: zoom clamp: from the initial transform, after any sequence of wheel
\* and pan events the scale factor k satisfies kMin <= k <= kMax (0.9 and 22
\* in the main timeline, 0.5 and 24 in the simple timeline).
C5_ZoomClamp ==
    /\ zoomComp = "main" => (9 <= zoomNode.k /\ zoomNode.k <= 220)
    /\ zoomComp = "simple" => (5 <= zoomNode.k /\ zoomNode.k <= 240)

\* a wheel event that asked for less than kMin and one that asked for more
\* than kMax have been handled
C5_Witness ==
    \/ zoomComp = "main" /\ zoomNode.k = 220
    \/ zoomComp = "simple" /\ zoomNode.k = 5

\* the visible window [invert(0), invert(len)] lies inside [0, len]
WindowInsideAxis(k, x, len) == x <= 0 /\ 10 * len - x <= k * len

WindowInside(t, size) ==
    /\ WindowInsideAxis(t.k, t.x, innerWidth(size))
    /\ WindowInsideAxis(t.k, t.y, innerHeight(size))

\* the visible window is longer than [0, len] and centred on it
WindowCentredAxis(k, x, len) == k < 10 /\ 2 * x = len * (10 - k)

\* C6 (as stated): in every reachable state (initial transform, after any
\* sequence of zoom/pan events, after a resize that re-applies the persisted
\* transform) the visible window lies inside [0,innerWidth] x [0,innerHeight].
C6_WindowInsideAlways == WindowInside(zoomNode, zoomSize)

GestureEvent ==
    \/ \E p \in WheelPoints(zoomSize), raw \in RawScales : Wheel(p[1], p[2], raw)
    \/ \E d \in PanDeltas : Pan(d[1], d[2])

WindowClamped(t, size) ==
    IF t.k >= 10 THEN WindowInside(t, size)
    ELSE /\ WindowCentredAxis(t.k, t.x, innerWidth(size))
         /\ WindowCentredAxis(t.k, t.y, innerHeight(size))

\* C6 (amended): at the initial transform and after every zoom/pan gesture
\* event, the visible window lies inside [0,innerWidth] x [0,innerHeight]
\* when k >= 1, and when k < 1 it is larger than that rectangle and centred
\* on it.
C6_WindowClampedAfterGesture ==
    /\ WindowClamped(zoomNode, zoomSize)
    /\ [][GestureEvent => WindowClamped(zoomNode', zoomSize')]_vars

\* zoomed in and panned as far as the right and bottom edge allow
C6_Witness ==
    /\ zoomNode.k = 25
    /\ zoomNode.x = innerWidth(zoomSize) * (10 - zoomNode.k)
    /\ zoomNode.y = innerHeight(zoomSize) * (10 - zoomNode.k)

(***************************************************************************)
(* Claims about the collision-avoidance layout                             *)
(***************************************************************************)
\* the two dots are at least minDX apart horizontally or minDY vertically
Separated(a, b, k) ==
    \/ Abs(a.cx - b.cx) >= 2 * 70 * k + 1000 * (IF k >= 143 THEN 2 ELSE 1)
    \/ Abs(a.cy - b.cy) >= 2 * 70 * k + 1000 * (IF k >= 143 THEN 2 ELSE 1)

\* C4 (as stated): after a render tick every pair of instant-marks of the
\* same band is at least minDX apart horizontally or at least minDY apart
\* vertically, unless both marks of the pair exhausted all lanes and were
\* placed by the best-effort clamp.
C4_SeparatedUnlessBothFallback ==
    layT # NoVal =>
        \A b \in DOMAIN layDots :
            \A i, j \in 1..Len(layDots[b]) :
                i < j =>
                    \/ Separated(layDots[b][i], layDots[b][j], layT[1].k)
                    \/ (~ layDots[b][i].found /\ ~ layDots[b][j].found)

\* C4 (amended): after a render tick every pair of instant-marks of the same
\* band is at least minDX apart horizontally or at least minDY apart
\* vertically, unless the mark of the pair that was placed later (in
\* ascending pixel x) exhausted all lanes and was placed by the best-effort
\* clamp.
C4_SeparatedUnlessLaterFallback ==
    layT # NoVal =>
        \A b \in DOMAIN layDots :
            \A i, j \in 1..Len(layDots[b]) :
                i < j =>
                    \/ Separated(layDots[b][i], layDots[b][j], layT[1].k)
                    \/ ~ layDots[b][j].found

\* the crowded band has been laid out: some of its marks moved off their
\* base y into a lane, and some exhausted the lanes
C4_Witness ==
    /\ layT # NoVal
    /\ Len(layRows) = CrowdSize
    /\ \E d \in {layDots.wide[j] : j \in 1..Len(layDots.wide)} :
          d.found /\ d.cy # zy(layT[1], layRows[d.row].y100)
    /\ \E j \in 1..Len(layDots.wide) : ~ layDots.wide[j].found


(***************************************************************************)
(* C1  One-shot close.  Below the threshold, with a band active and the    *)
(* close flag armed, a click on any target (the same band, another band,   *)
(* the empty canvas) leaves no band active and the flag disarmed.          *)
(***************************************************************************)
C1_OneShotClose ==
    [][(/\ lastEvent'.type = "click"
        /\ kRef < ZOOM_THRESHOLD
        /\ activeDurationIdRef # NONE
        /\ awaitingCloseClickRef)
       => (activeDurationIdRef' = NONE /\ ~awaitingCloseClickRef')]_vars

\* the click on band B that found band A open (A hovered, then clicked: the
\* hover is frozen while a band is active) has closed it and opened nothing
C1_Witness ==
    /\ lastEvent = [type |-> "click", target |-> [class |-> "outlineRect", id |-> "B"]]
    /\ kRef < ZOOM_THRESHOLD
    /\ hoveredDurationIdRef = "A"
    /\ activeDurationIdRef = NONE
    /\ ~awaitingCloseClickRef

(***************************************************************************)
(* C2  Mode exclusivity, detail side.  Whenever k >= ZOOM_THRESHOLD (after *)
(* a zoom tick and after every pointer event that follows it) the active   *)
(* band id is null, the hovered band id is null and the close flag is      *)
(* false.                                                                  *)
(***************************************************************************)
C2_DurationTrackEmptyInDetail ==
    kRef >= ZOOM_THRESHOLD =>
        /\ activeDurationIdRef = NONE
        /\ hoveredDurationIdRef = NONE
        /\ ~awaitingCloseClickRef

\* a tick has crossed into detail with the pointer still on a band it had
\* entered in overview
C2_Witness ==
    /\ kRef >= ZOOM_THRESHOLD
    /\ lastEvent.type = "zoom"
    /\ hoverEl.class = "outlineRect"

(***************************************************************************)
(* C3  Mode exclusivity, overview side.  Whenever k < ZOOM_THRESHOLD       *)
(* (after a zoom tick and after every pointer event that follows it) the   *)
(* active segment id and the hovered-segment-parent id are null.           *)
(***************************************************************************)
C3_SegmentTrackEmptyInOverview ==
    kRef < ZOOM_THRESHOLD =>
        /\ activeSegIdRef = NONE
        /\ hoveredSegParentIdRef = NONE

\* a tick has come back below the threshold with the pointer still on a
\* segment it had entered in detail
C3_Witness ==
    /\ kRef < ZOOM_THRESHOLD
    /\ lastEvent.type = "zoom"
    /\ hoverEl.class = "segmentHit"


(***************************************************************************)
(* C11  Segment toggle.  At k >= ZOOM_THRESHOLD a click on a segment that  *)
(* is not the active one makes that segment the active one and leaves no   *)
(* band active; a click on the active segment leaves no segment active.    *)
(***************************************************************************)
C11_SegmentToggle ==
    [][(/\ lastEvent'.type = "click"
        /\ lastEvent'.target.class = "segmentHit"
        /\ kRef >= ZOOM_THRESHOLD)
       => IF activeSegIdRef = lastEvent'.target.id
          THEN activeSegIdRef' = NONE
          ELSE /\ activeSegIdRef' = lastEvent'.target.id
               /\ activeDurationIdRef' = NONE
               /\ ~awaitingCloseClickRef']_vars

\* the second click on segment A1 has closed it (a click on A1 ends with no
\* active segment only when A1 was the active one)
C11_Witness ==
    /\ lastEvent = [type |-> "click", target |-> [class |-> "segmentHit", id |-> "A1"]]
    /\ kRef >= ZOOM_THRESHOLD
    /\ activeSegIdRef = NONE

(***************************************************************************)
(* C13  Empty-canvas click.  After a click whose target is the svg itself  *)
(* (no band, segment or mark hit-area) the active band id and the active   *)
(* segment id are null and the close flag is false.                        *)
(***************************************************************************)
C13_CanvasClickClearsBoth ==
    (lastEvent.type = "click" /\ lastEvent.target = SVG) =>
        /\ activeDurationIdRef = NONE
        /\ activeSegIdRef = NONE
        /\ ~awaitingCloseClickRef

\* a canvas click in detail mode, made while a mark was still hovered
C13_Witness ==
    /\ lastEvent = [type |-> "click", target |-> SVG]
    /\ kRef >= ZOOM_THRESHOLD
    /\ hoverEl.class = "author"
    /\ activeSegIdRef = NONE


(***************************************************************************)
(* C12  Mark click.  A click on an author or a text leaves the active      *)
(* segment id null, selects the mark with a card position inside the       *)
(* clamp, does not reach the svg's click handler, and leaves the active    *)
(* band id and the close flag as they were.                                *)
(***************************************************************************)
C12_MarkClick ==
    [][(lastEvent'.type = "click" /\ lastEvent'.target \in MarkEls)
       => /\ activeSegIdRef' = NONE
          /\ activeDurationIdRef' = activeDurationIdRef
          /\ awaitingCloseClickRef' = awaitingCloseClickRef
          /\ ~clickSeenBySvg'
          /\ selected' = KindOf(lastEvent'.target)
          /\ IF lastEvent'.target = AUTHOR
             THEN /\ authorCardPos'.left \in 4..Max(4, UiSize.width - AUTHOR_CARD_W - 4)
                  /\ authorCardPos'.top \in 4..Max(4, UiSize.height - AUTHOR_CARD_H - 4)
                  /\ cardPos' = cardPos
             ELSE /\ cardPos'.left \in 4..Max(4, UiSize.width - TEXT_CARD_W - 4)
                  /\ cardPos'.top \in 4..Max(4, UiSize.height - TEXT_CARD_H - 4)
                  /\ authorCardPos' = authorCardPos]_vars

\* the author was clicked with its tooltip up: the author card is selected
\* at the clamped position and nothing is active
C12_Witness ==
    /\ lastEvent = [type |-> "click", target |-> AUTHOR]
    /\ selected = "author"
    /\ authorCardPos = [left |-> 376, top |-> 36]
    /\ activeSegIdRef = NONE
    /\ hoverEl = AUTHOR


(***************************************************************************)
(* C14  Tooltip exclusivity.  In every reachable state at most one of the  *)
(* four tooltips (tipDur, tipSeg, tipAuthor, tipText) is visible.          *)
(***************************************************************************)
C14_AtMostOneTooltip == Cardinality(tips) <= 1


(***************************************************************************)
(* C15  Transform persistence.  In the main timeline the persisted         *)
(* transform is always the one of the event handled last, and a re-render  *)
(* after a resize draws with exactly that transform (same k, x, y); the    *)
(* default transform (k = 0.9, centred) is the one of the first render     *)
(* only.                                                                   *)
(***************************************************************************)
C15_TransformPersists ==
    /\ zoomComp = "main" => zoomLast = <<zoomNode>>
    /\ [][(zoomComp = "main" /\ zoomSize' # zoomSize)
           => (zoomNode' = zoomNode /\ zoomLast' = zoomLast)]_vars

\* a resize to 320 x 240 after a zoom to k = 22 at the far corner of the
\* 800 x 400 chart: the transform is still the one of that gesture, which
\* no gesture on the small chart could have produced
C15_Witness ==
    /\ zoomComp = "main"
    /\ zoomSize = [width |-> MIN_WIDTH, height |-> MIN_HEIGHT]
    /\ zoomNode.k = MAX_ZOOM
    /\ zoomNode.x < innerWidth(zoomSize) * (10 - zoomNode.k)
    /\ zoomLast = <<zoomNode>>


(***************************************************************************)
(* C16  Structural gating by mode.  The band hit-areas accept pointer      *)
(* events iff k < ZOOM_THRESHOLD, the segment, author and text hit-areas   *)
(* iff k >= ZOOM_THRESHOLD.                                                *)
(***************************************************************************)
C16_Gating ==
    /\ pointerEvents.outlineRect = "all" <=> kRef < ZOOM_THRESHOLD
    /\ pointerEvents.segmentHit = "all" <=> kRef >= ZOOM_THRESHOLD
    /\ pointerEvents.author = "all" <=> kRef >= ZOOM_THRESHOLD
    /\ pointerEvents.textDot = "all" <=> kRef >= ZOOM_THRESHOLD

\* the event handled last went to a hit-area of the other mode
PointerTypes == {"mouseenter", "mousemove", "mouseleave", "click"}
Mismatched(ev, k) ==
    /\ ev.type \in PointerTypes
    /\ \/ ev.target.class = "outlineRect" /\ k >= ZOOM_THRESHOLD
       \/ ev.target.class \in {"segmentHit", "author", "textDot"} /\ k < ZOOM_THRESHOLD

C17_HoverFollowsPointer ==
    (/\ lastEvent.type \in {"zoom", "end"}
     /\ kRef < ZOOM_THRESHOLD
     /\ sourceEvent.kind = "mouse")
    => hoveredDurationIdRef =
           IF sourceEvent.el.class = "outlineRect" THEN sourceEvent.el.id ELSE NONE

\* a tick with the pointer over band B while band A is open: B is hovered
C17_Witness ==
    /\ lastEvent.type = "zoom"
    /\ kRef < ZOOM_THRESHOLD
    /\ sourceEvent = MouseEvent([class |-> "outlineRect", id |-> "B"])
    /\ activeDurationIdRef = "A"
    /\ hoveredDurationIdRef = "B"


(***************************************************************************)
(* C18  Last-applied transform.  In the main timeline, when the handler of *)
(* a zoom event has returned, the cached scale factor and the cached       *)
(* rescaled scales are those of that event's transform over the base       *)
(* scales of the current size.                                             *)
(***************************************************************************)
C18_RefsOfLastTransform ==
    zoomComp = "main" =>
        /\ zoomRefs.kRef = zoomNode.k
        /\ zoomRefs.zxRef = <<rescaleX(zoomNode, zoomSize)>>
        /\ zoomRefs.zyRef = <<rescaleY(zoomNode, zoomSize)>>

\* a second event after a resize and a zoom: the cache holds k = 2.5 and the
\* scales over the 320 x 240 chart
C18_Witness ==
    /\ zoomComp = "main"
    /\ zoomEvents >= 3
    /\ zoomSize = [width |-> MIN_WIDTH, height |-> MIN_HEIGHT]
    /\ zoomNode.k = 25
    /\ zoomRefs.kRef = 25
    /\ zoomRefs.zxRef[1].range = MIN_WIDTH


(***************************************************************************)
(* C19: label emphasis.  As stated: after every handler the label of a     *)
(* band is at the active level when the band is active or is the parent of *)
(* the hovered segment, otherwise at the hover level when the band is      *)
(* hovered, otherwise at base.                                             *)
(***************************************************************************)
C19_LabelEmphasisAsStated ==
    \A d \in OutlineIds :
        labelOpacity[d] =
            IF d = activeDurationIdRef \/ d = hoveredSegParentIdRef
            THEN DUR_LABEL_OPACITY.active
            ELSE IF d = hoveredDurationIdRef THEN DUR_LABEL_OPACITY.hover
            ELSE DUR_LABEL_OPACITY.base

\* C19, as the code has it: after every handler the label of a band is at
\* the active level when the band is active or is the parent of the active
\* segment; otherwise, and only while no band is active, at the hover level
\* when the band is hovered or is the parent of the hovered segment;
\* otherwise at base.  Where both conditions apply the active level shows.
C19_LabelEmphasis ==
    \A d \in OutlineIds :
        LET activeCond == \/ d = activeDurationIdRef
                          \/ \E seg \in Segments :
                                 seg.id = activeSegIdRef /\ seg.parentId = d
            hoverCond == /\ activeDurationIdRef = NONE
                         /\ (d = hoveredDurationIdRef \/ d = hoveredSegParentIdRef)
        IN /\ labelOpacity[d] \in {DUR_LABEL_OPACITY.active, DUR_LABEL_OPACITY.hover,
                                    DUR_LABEL_OPACITY.base}
           /\ activeCond => labelOpacity[d] = DUR_LABEL_OPACITY.active
           /\ ~activeCond /\ hoverCond => labelOpacity[d] = DUR_LABEL_OPACITY.hover
           /\ ~activeCond /\ ~hoverCond => labelOpacity[d] = DUR_LABEL_OPACITY.base

\* segment A1 is active and the pointer is on segment A2 of the same band:
\* both conditions apply to band A, and its label is at the active level
C19_Witness ==
    /\ activeSegIdRef = "A1"
    /\ hoveredSegParentIdRef = "A"
    /\ hoverEl = [class |-> "segmentHit", id |-> "A2"]
    /\ labelOpacity["A"] = DUR_LABEL_OPACITY.active
    /\ labelOpacity["B"] = DUR_LABEL_OPACITY.base


(***************************************************************************)
(* C20: mark hover is a preview only.  The row of a mark, its year         *)
(* interval (an instant-mark's is the single year when), and the first     *)
(* segment of the mark's band, among those whose vertical slot has the     *)
(* mark's y, that the relation rel(segment, lo, hi) picks.                 *)
(***************************************************************************)
MarkRow(el) ==
    IF el.class = "author"
    THEN LET d == CHOOSE r \in authorRows : r.id = el.id
         IN [band |-> d.durationId, lo |-> Min(d.start, d.end),
             hi |-> Max(d.start, d.end), y |-> d.y]
    ELSE LET d == CHOOSE r \in textRows : r.id = el.id
         IN [band |-> d.durationId, lo |-> d.when, hi |-> d.when, y |-> d.y]

OwningSegment(el, rel(_, _, _)) ==
    LET m == MarkRow(el)
        fit == {i \in DOMAIN segments :
                   /\ segments[i].parentId = m.band
                   /\ rel(segments[i], m.lo, m.hi)
                   /\ segments[i].y <= m.y /\ m.y <= segments[i].y + segments[i].h}
    IN IF fit = {} THEN NullSeg
       ELSE segments[CHOOSE i \in fit : \A j \in fit : i <= j]

IntervalContains(seg, lo, hi) == seg.start <= lo /\ hi <= seg.end
IntervalMeets(seg, lo, hi) == seg.start <= hi /\ lo <= seg.end

\* what a step that is a pointer enter, move or leave on a mark may do,
\* given which segment owns the mark
MarkHoverIsPreview(rel(_, _, _)) ==
    \A el \in MarkEls :
        (/\ lastEvent'.target = el
         /\ lastEvent'.type \in {"mouseenter", "mousemove", "mouseleave"})
        => LET o == OwningSegment(el, rel)
           IN /\ activeSegIdRef' = activeSegIdRef
              /\ hoveredSegParentIdRef' = hoveredSegParentIdRef
              /\ activeDurationIdRef' = activeDurationIdRef
              /\ awaitingCloseClickRef' = awaitingCloseClickRef
              /\ \A id \in DOMAIN segStroke :
                     (id # o.id \/ id = activeSegIdRef) => segStroke'[id] = segStroke[id]
              /\ (o.id # NONE /\ o.id # activeSegIdRef)
                 => segStroke'[o.id] =
                        IF lastEvent'.type = "mouseenter" THEN SEG_STROKE.hover
                        ELSE IF lastEvent'.type = "mouseleave" THEN SEG_STROKE.base
                        ELSE segStroke[o.id]

\* C20 as stated: pointer enter, move and leave on a mark change neither
\* the active segment, the hovered segment's parent, the active band nor
\* the close flag; they switch the border of the owning segment only, which
\* is the first segment of the band whose year interval CONTAINS the mark
\* and whose vertical slot has the mark's y; the border of the active
\* segment is never altered.
C20_PreviewOfContainingSegment == [][MarkHoverIsPreview(IntervalContains)]_vars

\* C20, as the code has it: the same, where the owning segment of a
\* span-mark is the first segment of the band whose year interval has a
\* year in common with the mark's life (an instant-mark's year lies in it).
C20_PreviewOfOwningSegment == [][MarkHoverIsPreview(IntervalMeets)]_vars

\* the pointer has entered the author line, whose life starts in segment A1
\* and ends in A2, while A2 is the active segment: A1 has the preview
\* border, A2 keeps the active one
C20_Witness ==
    /\ lastEvent = [type |-> "mouseenter", target |-> AUTHOR]
    /\ activeSegIdRef = "A2"
    /\ segStroke["A1"] = SEG_STROKE.hover
    /\ segStroke["A2"] = SEG_STROKE.active


(***************************************************************************)
(* C30: tooltip horizontal clamp.  For every tooltip placement, anchored   *)
(* to a band or segment or to the pointer, the tooltip's left is           *)
(* max(4, min(midpoint - width / 2, viewportWidth - width - 4)); hence     *)
(* left >= 4 always, and left + width <= viewportWidth - 4 whenever        *)
(* viewportWidth >= width + 8.  The midpoint is the anchor's xMid, or the  *)
(* pointer's x in the wrapper; lengths in half pixels.                     *)
(***************************************************************************)
C30_HorizontalClamp ==
    tipStyle # NoVal =>
        LET mid2 == IF tipStyle[1].kind = "pointer"
                    THEN 2 * (tipPointer[1].clientX - WRAP_LEFT)
                    ELSE tipAnchor[1].left + tipAnchor[1].right
            tw == tipNode.offsetWidth
            vw == tipWrap.width
            left2 == tipStyle[1].left2
        IN /\ left2 = Max(2 * 4, Min(mid2 - tw, 2 * (vw - tw - 4)))
           /\ left2 >= 2 * 4
           /\ vw >= tw + 8 => left2 + 2 * tw <= 2 * (vw - 4)

\* a pointer tooltip whose pointer is right of the wrapper's right edge:
\* the tooltip is held 4 px inside it
C30_Witness ==
    /\ tipStyle # NoVal
    /\ tipStyle[1].kind = "pointer"
    /\ 2 * (tipPointer[1].clientX - WRAP_LEFT) - tipNode.offsetWidth
          > 2 * (tipWrap.width - tipNode.offsetWidth - 4)
    /\ tipWrap.width >= tipNode.offsetWidth + 8
    /\ tipStyle[1].left2 + 2 * tipNode.offsetWidth = 2 * (tipWrap.width - 4)


(***************************************************************************)
(* The first dataset of the registry holds the one span-mark record and    *)
(* the one instant-mark record that are drawn freely; their rows are known *)
(* by the band and the name (title), which no other record shares.         *)
(***************************************************************************)
DrawnDataset == rowRegistry[1]
DrawnAuthor == DrawnDataset.authors[1]
DrawnText == DrawnDataset.texts[1]
AuthorVisible ==
    \E i \in DOMAIN rowsA : /\ rowsA[i].durationId = DrawnDataset.durationId
                             /\ rowsA[i].name = trim(DrawnAuthor.Author)
TextVisible ==
    \E i \in DOMAIN rowsT : /\ rowsT[i].durationId = DrawnDataset.durationId
                             /\ rowsT[i].title = trim(DrawnText.Name)

\* a year field that is absent, null, empty or blank, or that is not a
\* finite number (NaN, Infinity, a string that is not a number)
MalformedYear(v) ==
    \/ v.t \in {"undefined", "null", "nan", "infinity"}
    \/ v.t = "string" /\ (trim(v.s) = <<>> \/ StringToNumber(v.s).t # "number")

\* C21: a span-mark record whose birth or death year field, or an
\* instant-mark record whose date field, is missing (absent, null or empty)
\* or is not a finite number never appears in the visible mark set.
C21_MalformedExcluded ==
    /\ (MalformedYear(DrawnAuthor.Dataviz_birth) \/ MalformedYear(DrawnAuthor.Dataviz_death))
          => ~AuthorVisible
    /\ MalformedYear(DrawnText.Dataviz_date) => ~TextVisible

(***************************************************************************)
(* C22: band-extent filter.  Every visible instant-mark has its year       *)
(* within the extent of its band, every visible span-mark has a lifespan   *)
(* that intersects it, and the band id of every visible mark resolves to   *)
(* a band; conversely a mark whose years lie entirely outside the extent   *)
(* of its band is not visible.  The extent of a band is [min, max] of its  *)
(* start and end.                                                          *)
(***************************************************************************)
ExtentMin(id) == LET o == outlinesById(outlines(rowDurations, rowSize), id)[1]
                 IN IF o.start <= o.end THEN o.start ELSE o.end
ExtentMax(id) == LET o == outlinesById(outlines(rowDurations, rowSize), id)[1]
                 IN IF o.start <= o.end THEN o.end ELSE o.start
BandExists(id) == \E i \in DOMAIN rowDurations : rowDurations[i].id = id

C22_BandExtentFilter ==
    /\ \A i \in DOMAIN rowsT :
          /\ BandExists(rowsT[i].durationId)
          /\ ExtentMin(rowsT[i].durationId) <= rowsT[i].when
          /\ rowsT[i].when <= ExtentMax(rowsT[i].durationId)
    /\ \A i \in DOMAIN rowsA :
          /\ BandExists(rowsA[i].durationId)
          /\ \E year \in ExtentMin(rowsA[i].durationId)..ExtentMax(rowsA[i].durationId) :
                \/ rowsA[i].start <= year /\ year <= rowsA[i].end
                \/ rowsA[i].end <= year /\ year <= rowsA[i].start
    /\ (/\ BandExists(DrawnDataset.durationId)
        /\ DrawnAuthor.Dataviz_birth.t = "number"
        /\ DrawnAuthor.Dataviz_death.t = "number"
        /\ \/ /\ DrawnAuthor.Dataviz_birth.n < ExtentMin(DrawnDataset.durationId)
              /\ DrawnAuthor.Dataviz_death.n < ExtentMin(DrawnDataset.durationId)
           \/ /\ DrawnAuthor.Dataviz_birth.n > ExtentMax(DrawnDataset.durationId)
              /\ DrawnAuthor.Dataviz_death.n > ExtentMax(DrawnDataset.durationId))
       => ~AuthorVisible
    /\ (/\ BandExists(DrawnDataset.durationId)
        /\ DrawnText.Dataviz_date.t = "number"
        /\ \/ DrawnText.Dataviz_date.n < ExtentMin(DrawnDataset.durationId)
           \/ DrawnText.Dataviz_date.n > ExtentMax(DrawnDataset.durationId))
       => ~TextVisible

\* after a resize: an author who lived in the year 900 and a text of the
\* year 900 are left out of the band that ends in 500, the author of the
\* other dataset is visible; and (second case) an author born in -400 who
\* died in 900 is visible in the band whose extent was given end first
C22_Witness ==
    /\ rowSize # [width |-> 800, height |-> 400]
    /\ DrawnDataset.durationId = ID_T
    /\ DrawnAuthor.Dataviz_birth = JsNum(-400)
    /\ DrawnAuthor.Dataviz_death = JsNum(900)
    /\ DrawnText.Dataviz_date = JsNum(900)
    /\ AuthorVisible
    /\ ~TextVisible
    /\ Len(rowsA) = 2

(***************************************************************************)
(* C23: hash-based base offset.  hashString returns a value in [0, 1); the *)
(* y of a mark is what building the rows again from the same inputs gives; *)
(* and it lies inside the padded vertical extent of the band,              *)
(* band.y + pad <= y <= band.y + band.h - pad, pad = min(6, max(2, 0.15 *  *)
(* band.h)), for every band height.  y and pad in hundredths of a pixel.   *)
(***************************************************************************)
BandOfRow(r) == outlinesById(outlines(rowDurations, rowSize), r.durationId)[1]
InsidePadded(r) ==
    LET band == BandOfRow(r)
        pad100 == IF 15 * band.h < 200 THEN 200
                  ELSE IF 15 * band.h > 600 THEN 600 ELSE 15 * band.h
    IN /\ 100 * band.y + pad100 <= r.y100
       /\ r.y100 <= 100 * (band.y + band.h) - pad100

C23_BaseOffsetInsidePadding ==
    /\ \A key \in RawNames :
          LET h == hashString(DrawnDataset.durationId \o COLONS \o key)
          IN /\ h.hi \in 0..65535 /\ h.lo \in 0..65535
             /\ hash100(h) \in 0..99
    /\ rowsA = filtA(pushedA(rowRegistry, outlines(rowDurations, rowSize), 1),
                     outlines(rowDurations, rowSize))
    /\ rowsT = filtT(pushedT(rowRegistry, outlines(rowDurations, rowSize), 1),
                     outlines(rowDurations, rowSize))
    /\ \A i \in DOMAIN rowsA : InsidePadded(rowsA[i])
    /\ \A i \in DOMAIN rowsT : InsidePadded(rowsT[i])

(***************************************************************************)
(* Claims about the lanes of the text dots.  After a tick, layDots[b] is   *)
(* the list `placed` of band b, in placement order; lengths are in mpx.    *)
(***************************************************************************)
DotRadiusPx == 70 * layT[1].k
DotStepPx == 2 * 70 * layT[1].k + 1000 * (IF layT[1].k >= 143 THEN 2 ELSE 1)
BandTopPx(b) == zy(layT[1], 100 * layOutlines[b].y)
BandBottomPx(b) == zy(layT[1], 100 * (layOutlines[b].y + layOutlines[b].h))
BaseCyOf(d) == zy(layT[1], layRows[d.row].y100)
InExtent(b, y) == BandTopPx(b) + DotRadiusPx <= y /\ y <= BandBottomPx(b) - DotRadiusPx
ExtentEmpty(b) == BandBottomPx(b) - BandTopPx(b) < 2 * DotRadiusPx

\* y moved into [bandTop + r, bandBottom - r], the lower end winning when
\* the interval is empty
ClampedInto(b, y) ==
    IF y > BandBottomPx(b) - DotRadiusPx
    THEN (IF BandBottomPx(b) - DotRadiusPx < BandTopPx(b) + DotRadiusPx
          THEN BandTopPx(b) + DotRadiusPx ELSE BandBottomPx(b) - DotRadiusPx)
    ELSE IF y < BandTopPx(b) + DotRadiusPx THEN BandTopPx(b) + DotRadiusPx
    ELSE y

\* the number of offsets tried: 2 * maxLanes - 1
OffsetCount(b) ==
    IF (BandBottomPx(b) - BandTopPx(b)) \div DotStepPx < 1 THEN 1
    ELSE 2 * ((BandBottomPx(b) - BandTopPx(b)) \div DotStepPx) - 1

\* the i-th offset of 0, +step, -step, +2 step, -2 step, ...
OffsetAt(i) == IF i % 2 = 0 THEN (i \div 2) * DotStepPx ELSE -((i \div 2) * DotStepPx)

\* a full scan: some mark placed before the n-th of band b is closer than
\* minDX horizontally and closer than minDY to y vertically
CollidesWithEarlier(b, n, y) ==
    \E j \in 1..(n - 1) :
        /\ Abs(layDots[b][n].cx - layDots[b][j].cx) < DotStepPx
        /\ Abs(y - layDots[b][j].cy) < DotStepPx

\* C24 (as stated): after a render tick every instant-mark's rendered y
\* lies within [bandTop + r, bandBottom - r] of its band, whether it was
\* placed at an accepted offset or by the fallback.
C24_InsideBandExtent ==
    layT # NoVal =>
        \A b \in DOMAIN layDots :
            \A n \in 1..Len(layDots[b]) : InExtent(b, layDots[b][n].cy)

\* C24 (amended): after a render tick every instant-mark's rendered y lies
\* within [bandTop + r, bandBottom - r] of its band when the band is at
\* least 2r high on screen, and is bandTop + r when it is lower (the
\* interval is empty then), whether the mark was placed at an accepted
\* offset or by the fallback.
C24_InsideBandExtentUnlessEmpty ==
    layT # NoVal =>
        \A b \in DOMAIN layDots :
            \A n \in 1..Len(layDots[b]) :
                IF ExtentEmpty(b)
                THEN layDots[b][n].cy = BandTopPx(b) + DotRadiusPx
                ELSE InExtent(b, layDots[b][n].cy)

\* the band of one pixel has been laid out: one of its marks took offset 0,
\* one fell back, both at bandTop + r; the mark of the wide band lies
\* inside the extent of its band
C24_Witness ==
    /\ layT # NoVal
    /\ layRows = HairRows
    /\ ExtentEmpty("hair")
    /\ \E n \in 1..Len(layDots.hair) : layDots.hair[n].found
    /\ \E n \in 1..Len(layDots.hair) : ~ layDots.hair[n].found
    /\ ~ ExtentEmpty("wide")
    /\ Len(layDots.wide) = 1

\* C25 (as stated): marks are taken in ascending pixel x, and the final y
\* of a mark is baseY + off for the first offset off, in the order 0,
\* +step, -step, ... with fewer than maxLanes steps on each side, whose y
\* lies within the padded extent of the band and does not collide with a
\* mark placed before; an offset whose y is outside the extent is rejected.
C25_FirstOffsetInsideExtent ==
    layT # NoVal =>
        \A b \in DOMAIN layDots :
            \A n \in 1..Len(layDots[b]) :
                /\ n > 1 => layDots[b][n - 1].cx <= layDots[b][n].cx
                /\ LET d == layDots[b][n]
                       ok == {i \in 1..OffsetCount(b) :
                                 /\ InExtent(b, BaseCyOf(d) + OffsetAt(i))
                                 /\ ~ CollidesWithEarlier(b, n, BaseCyOf(d) + OffsetAt(i))}
                   IN IF ok = {} THEN ~ d.found
                      ELSE d.cy = BaseCyOf(d)
                                    + OffsetAt(CHOOSE i \in ok : \A j \in ok : i <= j)

\* C25 (amended): marks are taken in ascending pixel x, and the final y of
\* a mark is baseY + off moved into [bandTop + r, bandBottom - r], for the
\* first offset off, in the order 0, +step, -step, ... with fewer than
\* maxLanes steps on each side, for which that moved y does not collide
\* with a mark placed before; an offset whose y is outside the extent is
\* tried at the nearest y of the extent, not rejected.
C25_FirstOffsetClamped ==
    layT # NoVal =>
        \A b \in DOMAIN layDots :
            \A n \in 1..Len(layDots[b]) :
                /\ n > 1 => layDots[b][n - 1].cx <= layDots[b][n].cx
                /\ LET d == layDots[b][n]
                       ok == {i \in 1..OffsetCount(b) :
                                 ~ CollidesWithEarlier(b, n,
                                       ClampedInto(b, BaseCyOf(d) + OffsetAt(i)))}
                   IN IF ok = {} THEN ~ d.found
                      ELSE /\ d.found
                           /\ d.cy = ClampedInto(b, BaseCyOf(d)
                                        + OffsetAt(CHOOSE i \in ok : \A j \in ok : i <= j))

\* a mark was accepted at the edge of the extent: its offset 0 collided,
\* and the y it has is no baseY + off
C25_Witness ==
    /\ layT # NoVal
    /\ \E b \in DOMAIN layDots :
          /\ ~ ExtentEmpty(b)
          /\ \E n \in 1..Len(layDots[b]) :
                /\ layDots[b][n].found
                /\ layDots[b][n].cy # ClampedInto(b, BaseCyOf(layDots[b][n]))
                /\ \A i \in 1..OffsetCount(b) :
                      layDots[b][n].cy # BaseCyOf(layDots[b][n]) + OffsetAt(i)

\* C26: an instant-mark that has no other mark of its band within minDX
\* pixels horizontally is rendered at exactly its base y (scaled by the
\* current vertical scale), i.e. with offset 0.
C26_BaseYWhenAlone ==
    layT # NoVal =>
        \A b \in DOMAIN layDots :
            \A n \in 1..Len(layDots[b]) :
                (\A j \in 1..Len(layDots[b]) :
                    j # n => Abs(layDots[b][n].cx - layDots[b][j].cx) > DotStepPx)
                => layDots[b][n].cy = BaseCyOf(layDots[b][n])

\* C27: lane placement assigns every mark exactly one y; a mark for which
\* every tried offset collides is placed at its base y clamped to the band
\* extent; and this holds for a band too low to hold one lane.
C27_FallbackAndTotal ==
    layT # NoVal =>
        /\ DOMAIN layDots = DOMAIN layOutlines
        /\ \A r \in DOMAIN layRows :
              Cardinality({n \in 1..Len(layDots[layRows[r].durationId]) :
                              layDots[layRows[r].durationId][n].row = r}) = 1
        /\ \A b \in DOMAIN layDots :
              \A n \in 1..Len(layDots[b]) :
                  /\ layRows[layDots[b][n].row].durationId = b
                  /\ ~ layDots[b][n].found =>
                        /\ layDots[b][n].cy = ClampedInto(b, BaseCyOf(layDots[b][n]))
                        /\ \A i \in 1..OffsetCount(b) :
                              CollidesWithEarlier(b, n,
                                  ClampedInto(b, BaseCyOf(layDots[b][n]) + OffsetAt(i)))

\* a band lower than one lane step holds three marks, one of them placed
\* by the fallback
C27_Witness ==
    /\ layT # NoVal
    /\ BandBottomPx("hair") - BandTopPx("hair") < DotStepPx
    /\ Len(layDots.hair) = 3
    /\ \E n \in 1..3 :
          /\ ~ layDots.hair[n].found
          /\ layDots.hair[n].cy # BaseCyOf(layDots.hair[n])

\* C28: the back-to-front scan over the marks placed before, which stops
\* at the first mark farther than minDX to the left, reports a collision
\* for a trial y iff a full scan over all of them finds one with
\* |dx| < minDX and |dy| < minDY; for every mark and every offset tried.
C28_EarlyExitExact ==
    layT # NoVal =>
        \A b \in DOMAIN layDots :
            \A n \in 1..Len(layDots[b]) :
                \A i \in 1..OffsetCount(b) :
                    ScanCollides(SubSeq(layDots[b], 1, n - 1), n - 1, layDots[b][n].cx,
                                 ClampedInto(b, BaseCyOf(layDots[b][n]) + OffsetAt(i)),
                                 layT[1].k)
                    <=> CollidesWithEarlier(b, n,
                            ClampedInto(b, BaseCyOf(layDots[b][n]) + OffsetAt(i)))

\* the scan for the third mark met a collision at offset 0 with the second
\* and, at the offset it took, stopped before the first, which is farther
\* than minDX to the left
C28_Witness ==
    /\ layT # NoVal
    /\ \E b \in DOMAIN layDots :
          /\ Len(layDots[b]) = 3
          /\ layDots[b][3].cx - layDots[b][1].cx > DotStepPx
          /\ layDots[b][3].cx - layDots[b][2].cx < DotStepPx
          /\ layDots[b][3].found
          /\ layDots[b][3].cy # ClampedInto(b, BaseCyOf(layDots[b][3]))

\* C29: the y of every instant-mark in a frame is a function of the mark
\* set, the band geometry and the current transform only: applying the
\* same transform again, or coming back to it after other ticks, gives the
\* same y for every mark.
C29_RecomputedEveryTick ==
    /\ [](layT # NoVal => layDots = TextDots(layRows, layOutlines, layT[1], LaySize))
    /\ [][(layT # NoVal /\ layT' = layT) => layDots' = layDots]_vars

\* a frame in which the crowded band has marks in lanes and marks placed
\* by the fallback, at the largest zoom
C29_Witness ==
    /\ layT # NoVal
    /\ layT[1].k = 220
    /\ Len(layRows) = CrowdSize
    /\ \E n \in 1..Len(layDots.wide) :
          layDots.wide[n].found /\ layDots.wide[n].cy # BaseCyOf(layDots.wide[n])

(***************************************************************************)
(* C31  Band hover transitions.  In overview mode with no band active and  *)
(* no gesture in progress, the pointer entering the hit-area of band B     *)
(* sets the hovered band to B and the pointer leaving it sets the hovered  *)
(* band to null; while a band is active, pointer enter and leave on any    *)
(* band leave the hovered band id unchanged; and while a gesture is in     *)
(* progress a pointer leave does not clear it.                             *)
(***************************************************************************)
OnBand(type) == lastEvent'.type = type /\ lastEvent'.target.class = "outlineRect"

C31_BandHoverTransitions ==
    [][/\ (OnBand("mouseenter") /\ kRef < ZOOM_THRESHOLD /\ activeDurationIdRef = NONE
                                /\ ~zoomDraggingRef)
          => hoveredDurationIdRef' = lastEvent'.target.id
       /\ (OnBand("mouseleave") /\ kRef < ZOOM_THRESHOLD /\ activeDurationIdRef = NONE
                                /\ ~zoomDraggingRef)
          => hoveredDurationIdRef' = NONE
       /\ ((OnBand("mouseenter") \/ OnBand("mouseleave")) /\ activeDurationIdRef # NONE)
          => hoveredDurationIdRef' = hoveredDurationIdRef
       /\ (OnBand("mouseleave") /\ zoomDraggingRef)
          => hoveredDurationIdRef' = hoveredDurationIdRef]_vars

\* the pointer has left band A in the middle of a gesture in overview, and
\* A is still the hovered band
C31_Witness ==
    /\ lastEvent = [type |-> "mouseleave", target |-> [class |-> "outlineRect", id |-> "A"]]
    /\ kRef < ZOOM_THRESHOLD
    /\ zoomDraggingRef
    /\ activeDurationIdRef = NONE
    /\ hoveredDurationIdRef = "A"

(***************************************************************************)
(* C32  Close flag tracks the active band.  In every state between         *)
(* handlers the one-shot close flag is true iff the active band id is      *)
(* non-null.                                                               *)
(***************************************************************************)
C32_FlagIffActiveBand == awaitingCloseClickRef <=> activeDurationIdRef # NONE

\* a band is open and armed, after a gesture tick and its end in overview
C32_Witness ==
    /\ lastEvent.type = "end"
    /\ activeDurationIdRef = "B"
    /\ awaitingCloseClickRef

(***************************************************************************)
(* C33  No stale band hover.  In overview mode, whenever no gesture is in  *)
(* progress and no band is active, the hovered band id is null or the id   *)
(* of the band whose hit-area is under the pointer.                        *)
(***************************************************************************)
C33_NoStaleBandHover ==
    (kRef < ZOOM_THRESHOLD /\ ~zoomDraggingRef /\ activeDurationIdRef = NONE)
    => \/ hoveredDurationIdRef = NONE
       \/ hoverEl = [class |-> "outlineRect", id |-> hoveredDurationIdRef]

(***************************************************************************)
(* C34  No stale segment hover.  In detail mode, whenever no gesture is in *)
(* progress, the hovered-segment-parent id is null or the parent id of the *)
(* segment whose hit-area is under the pointer.                            *)
(***************************************************************************)
C34_NoStaleSegmentHover ==
    (kRef >= ZOOM_THRESHOLD /\ ~zoomDraggingRef)
    => \/ hoveredSegParentIdRef = NONE
       \/ /\ hoverEl.class = "segmentHit"
          /\ SegOf(hoverEl).parentId = hoveredSegParentIdRef

(***************************************************************************)
(* C35  Mode memory agrees with the scale.  When the handler of a gesture  *)
(* tick returns, and after a re-render that applies the persisted          *)
(* transform again, the remembered previous-mode flag equals               *)
(* (k >= ZOOM_THRESHOLD) for the cached k; so the threshold handoff of a   *)
(* tick runs exactly when the tick changes the mode.                       *)
(***************************************************************************)
C35_ModeMemory ==
    /\ [](prevZoomedInRef <=> kRef >= ZOOM_THRESHOLD)
    /\ [][lastEvent'.type = "zoom" =>
             (prevZoomedInRef # prevZoomedInRef'
                 <=> (kRef >= ZOOM_THRESHOLD) # (kRef' >= ZOOM_THRESHOLD))]_vars

\* a tick has crossed the threshold downwards
C35_Witness ==
    /\ lastEvent.type = "zoom"
    /\ kRef = 23
    /\ ~prevZoomedInRef
    /\ hoverEl.class = "segmentHit"

(***************************************************************************)
(* C36  Card visibility follows active state.  In every state between      *)
(* handlers, once the first render has happened, the band tooltip is       *)
(* visible iff a band is active and the segment tooltip is visible iff a   *)
(* segment is active.                                                      *)
(***************************************************************************)
C36_CardsFollowActive ==
    /\ "tipDur" \in tips <=> activeDurationIdRef # NONE
    /\ "tipSeg" \in tips <=> activeSegIdRef # NONE

\* a re-render with band A open: its card is visible again
C36_Witness ==
    /\ lastEvent.type = "draw"
    /\ activeDurationIdRef = "A"
    /\ tips = {"tipDur"}

(***************************************************************************)
(* C38  Re-render keeps interaction state.                                 *)
(***************************************************************************)
RedrawKeepsIds ==
    /\ activeDurationIdRef' = activeDurationIdRef
    /\ activeSegIdRef' = activeSegIdRef
    /\ awaitingCloseClickRef' = awaitingCloseClickRef
    /\ hoveredDurationIdRef' = hoveredDurationIdRef

\* C38 (as stated): a re-render that applies the persisted transform again
\* leaves the active band id, the active segment id, the close flag and the
\* hovered band id unchanged; its only state effect is clearing again the
\* track of the mode not in use, which is empty already: no ref and no
\* tooltip changes.
C38_RedrawChangesNothing ==
    [][lastEvent'.type = "draw" =>
          /\ RedrawKeepsIds
          /\ hoveredSegParentIdRef' = hoveredSegParentIdRef
          /\ zoomDraggingRef' = zoomDraggingRef
          /\ tips' = tips]_vars

\* C38 (amended): a re-render that applies the persisted transform again
\* leaves the active band id, the active segment id, the close flag, the
\* hovered band id and the hovered-segment-parent id unchanged; besides
\* clearing again the empty track of the mode not in use, it leaves the
\* gesture flag false, also when a gesture is in progress, and it hides the
\* four tooltips and shows again the cards of the active band and segment
\* only.
C38_RedrawKeepsIdsEndsGesture ==
    [][lastEvent'.type = "draw" =>
          /\ RedrawKeepsIds
          /\ hoveredSegParentIdRef' = hoveredSegParentIdRef
          /\ ~zoomDraggingRef'
          /\ tips' = (IF activeDurationIdRef # NONE THEN {"tipDur"} ELSE {})
                        \cup (IF activeSegIdRef # NONE THEN {"tipSeg"} ELSE {})]_vars

\* a re-render in detail mode with segment A1 open, band A's label hovered
\* through it and the pointer on an author line
C38_Witness ==
    /\ lastEvent.type = "draw"
    /\ kRef >= ZOOM_THRESHOLD
    /\ activeSegIdRef = "A1"
    /\ hoveredSegParentIdRef = "A"
    /\ hoverEl = AUTHOR
    /\ tips = {"tipSeg"}

(***************************************************************************)
(* C39  Chronological order is preserved.  toAstronomical is strictly      *)
(* increasing over the nonzero integers and maps consecutive calendar      *)
(* years (-1 followed by 1 included) to consecutive integers, so for       *)
(* nonzero years y1 < y2 the base pixel x of y1 is strictly left of that   *)
(* of y2; human year 0 maps to the same position as year 1.  Checked in    *)
(* the state in which toAstronomical has just been applied to yearIn, for  *)
(* every later year and both chart sizes.                                  *)
(***************************************************************************)
YearAfter(y) == IF y = -1 THEN 1 ELSE y + 1

C39_OrderPreserved ==
    (astro # NoVal /\ human = NoVal /\ label = NoVal) =>
        /\ yearIn # 0 =>
              /\ \A y2 \in Years \ {0} :
                    yearIn < y2 =>
                        /\ astro[1] < toAstronomical(y2)
                        /\ \A size \in Sizes :
                              xBase100(astro[1], size) < xBase100(toAstronomical(y2), size)
              /\ toAstronomical(YearAfter(yearIn)) = astro[1] + 1
        /\ yearIn = 0 =>
              /\ astro[1] = toAstronomical(1)
              /\ \A size \in Sizes :
                    xBase100(astro[1], size) = xBase100(toAstronomical(1), size)

\* toAstronomical has been applied to the year 1 BCE
C39_Witness == yearIn = -1 /\ astro = <<0>> /\ human = NoVal /\ label = NoVal

(***************************************************************************)
(* C37  Any colliding pair is due to the fallback.  After a render tick,   *)
(* if two instant-marks of the same band are closer than minDX             *)
(* horizontally and closer than minDY vertically, the one placed later in  *)
(* ascending-x order was placed by the fallback, all its offsets having    *)
(* collided; a mark placed at an accepted offset collides with no mark     *)
(* placed before it.                                                       *)
(***************************************************************************)
C37_CollisionOnlyByFallback ==
    layT # NoVal =>
        \A b \in DOMAIN layDots :
            \A n \in 1..Len(layDots[b]) :
                /\ layDots[b][n].found => ~ CollidesWithEarlier(b, n, layDots[b][n].cy)
                /\ CollidesWithEarlier(b, n, layDots[b][n].cy) =>
                      /\ ~ layDots[b][n].found
                      /\ \A i \in 1..OffsetCount(b) :
                            CollidesWithEarlier(b, n,
                                ClampedInto(b, BaseCyOf(layDots[b][n]) + OffsetAt(i)))

\* in the crowded band a mark placed by the fallback lies on a mark placed
\* before it, and the marks before it took the free lanes
C37_Witness ==
    /\ layT # NoVal
    /\ Len(layRows) = CrowdSize
    /\ \E n \in 1..Len(layDots.wide) :
          /\ ~ layDots.wide[n].found
          /\ CollidesWithEarlier("wide", n, layDots.wide[n].cy)
          /\ \A m \in 1..(n - 1) : layDots.wide[m].found
          /\ n > 2

============================================================================
